---- MODULE Spec2Model ----
(***************************************************************************)
(* A model of the interlinear generator's extraction and alignment engine: *)
(* the reference parser and corpus aggregator (src/src/parse_greek.py),    *)
(* the heading/verse disambiguator (src/src/fetch_esv.py) and the mergers  *)
(* (src/src/generate_latex.py, src/src/generate_multi_latex.py) and the    *)
(* lexical cross-reference resolver (src/src/strongs_lookup.py).           *)
(*                                                                         *)
(* Python strings are sequences of one-character strings, so that strip,   *)
(* split, startswith and the regular expressions are computed character by *)
(* character.  The corpus brackets U+3014, U+3015 and the fullwidth bar    *)
(* U+FF5C are written "[", "]" and "|".                                    *)
(***************************************************************************)
EXTENDS Integers, Sequences, FiniteSets, TLC

VARIABLES
    pc,            \* position of the run: "<component>_ready", then a result state
    ref,           \* parse_passage_reference: the argument string
    ref_src,       \* how ref was composed (book name, form, numerals): ghost
    parsed,        \* parse_passage_reference: the returned dict or the raised error
    df,            \* the corpus DataFrame: its rows, in file order
    req,           \* the aggregator call: the function and its arguments
    tree,          \* what the aggregator call returned (or the error it raised)
    passage_text,  \* parse_esv_verses_with_headings: the argument string
    text_src,      \* how passage_text was composed (its markers and lines): ghost
    parsed_verses, \* parse_esv_verses_with_headings: the returned list
    greek_data,    \* the Greek tree handed to the merger
    esv_data,      \* the ESV passage handed to the merger
    net_data,      \* the NET passage handed to the merger
    kjv_data,      \* the KJV passage handed to the merger
    merged,        \* what the merge function returned
    cell_text,     \* a cell of the corpus handed to the decoder
    cell_src,      \* how cell_text was composed (its fields): ghost
    decoded,       \* what the decoder returned for cell_text
    redecoded,     \* extract_strongs_number applied to the identifier it returned
    strongs_file,  \* STRONGS_FILE: the dictionary it holds, or Missing
    lsj_file,      \* LSJ_FILE: the lexicon it holds, or Missing
    strongs_dict,  \* _strongs_dict: None until the dictionary is loaded
    lsj_dict,      \* _lsj_dict: None until the lexicon is loaded
    lsj_normalized, \* _lsj_normalized: None until the lexicon is loaded
    lex_passage,   \* the Greek passage handed to collect_strongs_from_greek_data
    lex_entries,   \* what collect_strongs_from_greek_data returned (or the error it raised)
    lex_call,      \* the last call into strongs_lookup: the function and its argument
    lex_result,    \* what lookup_strongs or lookup_lsj returned (or the error it raised)
    appendix,      \* what format_appendix_entries returned
    strongs_reads, \* how often STRONGS_FILE was opened and read: ghost
    lsj_reads,     \* how often LSJ_FILE was opened and read: ghost
    calls_left,    \* how many more calls the process makes
    greek_before,  \* the Greek tree as handed to render_document: ghost
    words_shared,  \* whether the merged verses hold the word lists of the Greek tree themselves
    fetch_call,    \* the call into a fetcher: the function and its arguments
    response,      \* the answer of the translation service to the last request (<<>> before the first)
    fetched,       \* what the fetcher returned (or the error it raised)
    retries,       \* fetch_chapter's retries argument
    attempt,       \* fetch_chapter's loop variable
    sent,          \* the requests of fetch_chapter so far, each with the status it was answered with: ghost
    slept          \* the waits of fetch_chapter so far, in milliseconds: ghost

refVars == <<ref, ref_src, parsed>>
aggVars == <<df, req, tree>>
esvVars == <<passage_text, text_src, parsed_verses>>
mergeVars == <<greek_data, esv_data, net_data, kjv_data, merged>>
decVars == <<cell_text, cell_src, decoded, redecoded>>
lexVars == <<strongs_file, lsj_file, strongs_dict, lsj_dict, lsj_normalized, lex_passage,
             lex_entries, lex_call, lex_result, appendix, strongs_reads, lsj_reads, calls_left>>
renderVars == <<greek_before, words_shared>>
fetchVars == <<fetch_call, response, fetched, retries, attempt, sent, slept>>
vars == <<pc, refVars, aggVars, esvVars, mergeVars, decVars, lexVars, renderVars, fetchVars>>

\* a run of another component leaves the lexicon module untouched
LexIdle ==
    /\ strongs_file = <<>> /\ lsj_file = <<>>
    /\ strongs_dict = <<>> /\ lsj_dict = <<>> /\ lsj_normalized = <<>>
    /\ lex_passage = <<>> /\ lex_entries = <<>> /\ lex_call = <<>> /\ lex_result = <<>>
    /\ appendix = <<>> /\ strongs_reads = 0 /\ lsj_reads = 0 /\ calls_left = 0

\* a run of another component renders nothing
RenderIdle ==
    /\ greek_before = <<>> /\ words_shared = FALSE

\* a run of another component fetches nothing
FetchIdle ==
    /\ fetch_call = <<>> /\ response = <<>> /\ fetched = <<>> /\ retries = 0 /\ attempt = 0 /\ sent = <<>> /\ slept = <<>>

(***************************************************************************)
(* Python string primitives                                                *)
(***************************************************************************)
DigitChars == <<"0", "1", "2", "3", "4", "5", "6", "7", "8", "9">>

UpperChars == <<"A","B","C","D","E","F","G","H","I","J","K","L","M",
                "N","O","P","Q","R","S","T","U","V","W","X","Y","Z">>

LowerChars == <<"a","b","c","d","e","f","g","h","i","j","k","l","m",
                "n","o","p","q","r","s","t","u","v","w","x","y","z">>

Range(f) == {f[i] : i \in DOMAIN f}

IsDigit(c) == c \in Range(DigitChars)

\* str.strip() and the regex class \s: whitespace
IsSpace(c) == c \in {" ", "\t", "\n"}

DigitVal(c) == (CHOOSE i \in 1..10 : DigitChars[i] = c) - 1

\* str.lower() on one character
LowerChar(c) ==
    IF c \in Range(UpperChars)
    THEN LowerChars[CHOOSE i \in 1..26 : UpperChars[i] = c]
    ELSE c

UpperChar(c) ==
    IF c \in Range(LowerChars)
    THEN UpperChars[CHOOSE i \in 1..26 : LowerChars[i] = c]
    ELSE c

PyLower(s) == [i \in 1..Len(s) |-> LowerChar(s[i])]

RECURSIVE PyRemoveSpaces(_)
\* s.replace(" ", ""): only the space character is removed
PyRemoveSpaces(s) ==
    IF s = <<>> THEN <<>>
    ELSE IF Head(s) = " " THEN PyRemoveSpaces(Tail(s))
    ELSE <<Head(s)>> \o PyRemoveSpaces(Tail(s))

RECURSIVE LStrip(_)
LStrip(s) == IF s # <<>> /\ IsSpace(Head(s)) THEN LStrip(Tail(s)) ELSE s

RECURSIVE RStrip(_)
RStrip(s) ==
    IF s # <<>> /\ IsSpace(s[Len(s)]) THEN RStrip(SubSeq(s, 1, Len(s) - 1)) ELSE s

\* str.strip()
PyStrip(s) == RStrip(LStrip(s))

RECURSIVE PyIntAcc(_, _)
PyIntAcc(s, acc) ==
    IF s = <<>> THEN acc ELSE PyIntAcc(Tail(s), acc * 10 + DigitVal(Head(s)))

\* int(s) for a string of decimal digits: leading zeros do not count
PyInt(s) == PyIntAcc(s, 0)

RECURSIVE PyStr(_)
\* str(n) for n >= 0: the decimal numeral without leading zeros
PyStr(n) ==
    IF n < 10 THEN <<DigitChars[n + 1]>>
    ELSE PyStr(n \div 10) \o <<DigitChars[(n % 10) + 1]>>

RECURSIVE SetToSeq(_)
\* sorted(S) for a set of integers
SetToSeq(S) ==
    IF S = {} THEN <<>>
    ELSE LET least == CHOOSE x \in S : \A y \in S : x <= y
         IN  <<least>> \o SetToSeq(S \ {least})

\* s.startswith(p)
StartsWith(s, p) == Len(p) <= Len(s) /\ SubSeq(s, 1, Len(p)) = p

(***************************************************************************)
(* Regular expressions of parse_passage_reference.  A pattern is the lazy  *)
(* group (.+?) followed by a tail of elements: "S+" is \s+, "D+" is a      *)
(* captured (\d+), anything else but "$" is a literal character;           *)
(* "$" is the end of the string.  \s, \d and the literals are disjoint, so *)
(* the greedy runs admit one match only and the tail needs no backtracking.*)
(***************************************************************************)
RECURSIVE RunEnd(_, _, _)
\* the index just past the longest run of characters of one class from i
RunEnd(s, i, cls) ==
    IF i <= Len(s) /\ ((cls = "S+" /\ IsSpace(s[i])) \/ (cls = "D+" /\ IsDigit(s[i])))
    THEN RunEnd(s, i + 1, cls)
    ELSE i

NoMatch == [ok |-> FALSE, groups |-> <<>>]

RECURSIVE MatchTail(_, _, _, _)
MatchTail(s, i, pat, groups) ==
    IF pat = <<>> THEN [ok |-> TRUE, groups |-> groups]
    ELSE IF Head(pat) = "$"
    THEN IF i = Len(s) + 1 THEN MatchTail(s, i, Tail(pat), groups) ELSE NoMatch
    ELSE IF Head(pat) \in {"S+", "D+"}
    THEN LET j == RunEnd(s, i, Head(pat))
         IN  IF j = i THEN NoMatch
             ELSE MatchTail(s, j, Tail(pat),
                            IF Head(pat) = "D+"
                            THEN Append(groups, SubSeq(s, i, j - 1)) ELSE groups)
    ELSE IF i <= Len(s) /\ s[i] = Head(pat)
    THEN MatchTail(s, i + 1, Tail(pat), groups)
    ELSE NoMatch

RECURSIVE MatchLazy(_, _, _)
\* re.match(r"^(.+?)" + tail, s): the shortest prefix of k >= 1
\* characters other than newline after which the tail matches
MatchLazy(s, k, pat) ==
    IF k > Len(s) \/ s[k] = "\n" THEN NoMatch
    ELSE LET m == MatchTail(s, k + 1, pat, <<>>)
         IN  IF m.ok THEN [ok |-> TRUE, groups |-> <<SubSeq(s, 1, k)>> \o m.groups]
             ELSE MatchLazy(s, k + 1, pat)

ReMatch(pat, s) == MatchLazy(s, 1, pat)

pattern_verse_range == <<"S+", "D+", ":", "D+", "-", "D+", "$">>
pattern_single_verse == <<"S+", "D+", ":", "D+", "$">>
pattern_chapter == <<"S+", "D+", "$">>

(***************************************************************************)
(* BOOK_NAMES                                                              *)
(***************************************************************************)
BOOK_NAMES ==
    <<
       <<<<"m","a","t","t","h","e","w">>, 40>>,
       <<<<"m","a","t","t">>, 40>>,
       <<<<"m","t">>, 40>>,
       <<<<"m","a","r","k">>, 41>>,
       <<<<"m","k">>, 41>>,
       <<<<"l","u","k","e">>, 42>>,
       <<<<"l","k">>, 42>>,
       <<<<"j","o","h","n">>, 43>>,
       <<<<"j","n">>, 43>>,
       <<<<"a","c","t","s">>, 44>>,
       <<<<"r","o","m","a","n","s">>, 45>>,
       <<<<"r","o","m">>, 45>>,
       <<<<"1","c","o","r","i","n","t","h","i","a","n","s">>, 46>>,
       <<<<"1","c","o","r">>, 46>>,
       <<<<"1"," ","c","o","r","i","n","t","h","i","a","n","s">>, 46>>,
       <<<<"2","c","o","r","i","n","t","h","i","a","n","s">>, 47>>,
       <<<<"2","c","o","r">>, 47>>,
       <<<<"2"," ","c","o","r","i","n","t","h","i","a","n","s">>, 47>>,
       <<<<"g","a","l","a","t","i","a","n","s">>, 48>>,
       <<<<"g","a","l">>, 48>>,
       <<<<"e","p","h","e","s","i","a","n","s">>, 49>>,
       <<<<"e","p","h">>, 49>>,
       <<<<"p","h","i","l","i","p","p","i","a","n","s">>, 50>>,
       <<<<"p","h","i","l">>, 50>>,
       <<<<"c","o","l","o","s","s","i","a","n","s">>, 51>>,
       <<<<"c","o","l">>, 51>>,
       <<<<"1","t","h","e","s","s","a","l","o","n","i","a","n","s">>, 52>>,
       <<<<"1","t","h","e","s","s">>, 52>>,
       <<<<"1"," ","t","h","e","s","s","a","l","o","n","i","a","n","s">>, 52>>,
       <<<<"2","t","h","e","s","s","a","l","o","n","i","a","n","s">>, 53>>,
       <<<<"2","t","h","e","s","s">>, 53>>,
       <<<<"2"," ","t","h","e","s","s","a","l","o","n","i","a","n","s">>, 53>>,
       <<<<"1","t","i","m","o","t","h","y">>, 54>>,
       <<<<"1","t","i","m">>, 54>>,
       <<<<"1"," ","t","i","m","o","t","h","y">>, 54>>,
       <<<<"2","t","i","m","o","t","h","y">>, 55>>,
       <<<<"2","t","i","m">>, 55>>,
       <<<<"2"," ","t","i","m","o","t","h","y">>, 55>>,
       <<<<"t","i","t","u","s">>, 56>>,
       <<<<"p","h","i","l","e","m","o","n">>, 57>>,
       <<<<"p","h","l","m">>, 57>>,
       <<<<"h","e","b","r","e","w","s">>, 58>>,
       <<<<"h","e","b">>, 58>>,
       <<<<"j","a","m","e","s">>, 59>>,
       <<<<"j","a","s">>, 59>>,
       <<<<"1","p","e","t","e","r">>, 60>>,
       <<<<"1","p","e","t">>, 60>>,
       <<<<"1"," ","p","e","t","e","r">>, 60>>,
       <<<<"2","p","e","t","e","r">>, 61>>,
       <<<<"2","p","e","t">>, 61>>,
       <<<<"2"," ","p","e","t","e","r">>, 61>>,
       <<<<"1","j","o","h","n">>, 62>>,
       <<<<"1","j","n">>, 62>>,
       <<<<"1"," ","j","o","h","n">>, 62>>,
       <<<<"2","j","o","h","n">>, 63>>,
       <<<<"2","j","n">>, 63>>,
       <<<<"2"," ","j","o","h","n">>, 63>>,
       <<<<"3","j","o","h","n">>, 64>>,
       <<<<"3","j","n">>, 64>>,
       <<<<"3"," ","j","o","h","n">>, 64>>,
       <<<<"j","u","d","e">>, 65>>,
       <<<<"r","e","v","e","l","a","t","i","o","n">>, 66>>,
       <<<<"r","e","v">>, 66>>
    >>

BookKeys == {BOOK_NAMES[i][1] : i \in DOMAIN BOOK_NAMES}

\* BOOK_NAMES.get(name, 0): a default number in place of None
BookNamesGet_Default(name) ==
    IF name \in BookKeys
    THEN [found |-> TRUE,
          value |-> BOOK_NAMES[CHOOSE i \in DOMAIN BOOK_NAMES : BOOK_NAMES[i][1] = name][2]]
    ELSE [found |-> TRUE, value |-> 0]

\* BOOK_NAMES.get(name): found = FALSE stands for Python's None
BookNamesGet(name) ==
    IF name \in BookKeys
    THEN [found |-> TRUE,
          value |-> BOOK_NAMES[CHOOSE i \in DOMAIN BOOK_NAMES : BOOK_NAMES[i][1] = name][2]]
    ELSE [found |-> FALSE, value |-> 0]

\* the normalization without .lower()
NormalizeBookName_NoLower(s) == PyRemoveSpaces(s)

\* match.group(1).lower().replace(" ", "")
NormalizeBookName(s) == PyRemoveSpaces(PyLower(s))

Raise(prefix, arg) == [raised |-> "ValueError", prefix |-> prefix, arg |-> arg]

Raised(r) == "raised" \in DOMAIN r

parse_passage_reference(ref0) ==
    LET r  == PyStrip(ref0)
        m1 == ReMatch(pattern_verse_range, r)
        m2 == ReMatch(pattern_single_verse, r)
        m3 == ReMatch(pattern_chapter, r)
    IN  IF m1.ok
        THEN LET book_num == BookNamesGet(NormalizeBookName(m1.groups[1]))
             IN  IF ~book_num.found THEN Raise("Unknown book: ", m1.groups[1])
                 ELSE [book_num |-> book_num.value, type |-> "verse_range",
                       chapter |-> PyInt(m1.groups[2]),
                       start_verse |-> PyInt(m1.groups[3]),
                       end_verse |-> PyInt(m1.groups[4])]
        ELSE IF m2.ok
        THEN LET book_num == BookNamesGet(NormalizeBookName(m2.groups[1]))
             IN  IF ~book_num.found THEN Raise("Unknown book: ", m2.groups[1])
                 ELSE [book_num |-> book_num.value, type |-> "verse_range",
                       chapter |-> PyInt(m2.groups[2]),
                       start_verse |-> PyInt(m2.groups[3]),
                       end_verse |-> PyInt(m2.groups[3])]
        ELSE IF m3.ok
        THEN LET book_num == BookNamesGet(NormalizeBookName(m3.groups[1]))
             IN  IF ~book_num.found THEN Raise("Unknown book: ", m3.groups[1])
                 ELSE [book_num |-> book_num.value, type |-> "chapter",
                       chapter |-> PyInt(m3.groups[2])]
        ELSE LET book_num == BookNamesGet(NormalizeBookName(r))
             IN  IF book_num.found
                 THEN [book_num |-> book_num.value, type |-> "book"]
                 ELSE Raise("Invalid passage reference: ", r)


(***************************************************************************)
(* Corpus record decoder                                                   *)
(***************************************************************************)
\* a cell the CSV left empty: pandas reads it as NaN
NaN == <<"NaN">>

\* `not cell or pd.isna(cell)`
Absent(cell) == cell = <<>> \/ cell = NaN

RECURSIVE LStripChars(_, _)
LStripChars(s, cs) ==
    IF s # <<>> /\ Head(s) \in cs THEN LStripChars(Tail(s), cs) ELSE s

RECURSIVE RStripChars(_, _)
RStripChars(s, cs) ==
    IF s # <<>> /\ s[Len(s)] \in cs
    THEN RStripChars(SubSeq(s, 1, Len(s) - 1), cs) ELSE s

\* s.strip(chars)
PyStripChars(s, cs) == RStripChars(LStripChars(s, cs), cs)

Brackets == {"[", "]"}

\* s.split(sep) for a one-character separator: the pieces between the
\* occurrences of sep, always at least one part
PySplit(s, sep) ==
    LET cuts == SetToSeq({i \in 1..Len(s) : s[i] = sep})
        from(k) == IF k = 1 THEN 1 ELSE cuts[k - 1] + 1
        to(k) == IF k <= Len(cuts) THEN cuts[k] - 1 ELSE Len(s)
    IN  [k \in 1..(Len(cuts) + 1) |-> SubSeq(s, from(k), to(k))]

extract_greek_word(tantt_cell) ==
    IF Absent(tantt_cell) THEN <<>>
    ELSE LET parts == PySplit(PyStripChars(tantt_cell, Brackets), "=")
         IN  IF Len(parts) >= 2 THEN PyStrip(parts[2]) ELSE <<>>

RECURSIVE SearchStrongs(_, _)
\* re.search(r'(G\d+)', s): the leftmost G that a digit follows, with its digit run
SearchStrongs(s, i) ==
    IF i >= Len(s) THEN NoMatch
    ELSE IF s[i] = "G" /\ IsDigit(s[i + 1])
    THEN [ok |-> TRUE, groups |-> <<SubSeq(s, i, RunEnd(s, i + 1, "D+") - 1)>>]
    ELSE SearchStrongs(s, i + 1)

\* the identifier as matched, not re-read as an integer
extract_strongs_number_Raw(tantt_cell) ==
    IF Absent(tantt_cell) THEN <<>>
    ELSE LET m == SearchStrongs(PyStripChars(tantt_cell, Brackets), 1)
         IN  IF m.ok THEN m.groups[1] ELSE <<>>

extract_strongs_number(tantt_cell) ==
    IF Absent(tantt_cell) THEN <<>>
    ELSE LET m == SearchStrongs(PyStripChars(tantt_cell, Brackets), 1)
         IN  IF m.ok THEN <<"G">> \o PyStr(PyInt(Tail(m.groups[1]))) ELSE <<>>

\* the fallback that prefers a non-empty second candidate to the first
extract_gloss_SecondFallback(gloss_cell) ==
    IF Absent(gloss_cell) THEN <<>>
    ELSE LET parts == PySplit(PyStripChars(gloss_cell, Brackets), "|")
         IN  IF Len(parts) >= 3 /\ PyStrip(parts[3]) # <<>>
             THEN PyStrip(parts[3])
             ELSE IF Len(parts) >= 2 /\ PyStrip(parts[2]) # <<>>
             THEN PyStrip(parts[2])
             ELSE PyStrip(parts[1])

extract_gloss(gloss_cell) ==
    IF Absent(gloss_cell) THEN <<>>
    ELSE LET parts == PySplit(PyStripChars(gloss_cell, Brackets), "|")
         IN  IF Len(parts) >= 3 /\ PyStrip(parts[3]) # <<>>
             THEN PyStrip(parts[3])
             ELSE PyStrip(parts[1])

(***************************************************************************)
(* Hierarchical aggregator.  A Python dict is the sequence of its          *)
(* <<key, value>> pairs in insertion order.                                *)
(***************************************************************************)
DictKeys(d) == [i \in 1..Len(d) |-> d[i][1]]

DictHas(d, k) == \E i \in 1..Len(d) : d[i][1] = k

DictGet(d, k) == d[CHOOSE i \in 1..Len(d) : d[i][1] = k][2]

\* d[k] = v
DictSet(d, k, v) ==
    IF DictHas(d, k)
    THEN [i \in 1..Len(d) |-> IF d[i][1] = k THEN <<k, v>> ELSE d[i]]
    ELSE Append(d, <<k, v>>)

\* the keys in insertion order, unsorted
SortedInts_Unsorted(ks) == ks

RECURSIVE SortedInts(_)
\* sorted(keys) for distinct integer keys
SortedInts(ks) ==
    IF ks = <<>> THEN <<>>
    ELSE LET m == CHOOSE x \in Range(ks) : \A y \in Range(ks) : x <= y
             rest == SelectSeq(ks, LAMBDA x : x # m)
         IN  <<m>> \o SortedInts(rest)

\* re.match(r'[(\d+)|(\d+)|(\d+)]', ref): a prefix match
ref_pattern == <<"[", "D+", "|", "D+", "|", "D+", "]">>

RefMatch(key) == MatchTail(key, 1, ref_pattern, <<>>)

\* the word a row decodes to; row is the index of the corpus row it comes
\* from, which the code does not keep (a ghost field for stating provenance)
WordData(row, idx) ==
    LET strongs == extract_strongs_number(row.tantt)
        base == [greek |-> extract_greek_word(row.tantt),
                 gloss |-> extract_gloss(row.gloss), row |-> idx]
    IN  IF strongs # <<>>
        THEN [greek |-> base.greek, gloss |-> base.gloss, row |-> idx,
              strongs |-> strongs]
        ELSE base

\* `if greek_word and gloss`, without the test of the gloss
KeepWord_SurfaceOnly(w) == w.greek # <<>>

\* `if greek_word and gloss`
KeepWord(w) == w.greek # <<>> /\ w.gloss # <<>>

\* f'[{book_num}' : the book pattern without its closing bar
book_pattern_NoBar(book_num) == <<"[">> \o PyStr(book_num)

\* f'[{book_num}|'
book_pattern(book_num) == <<"[">> \o PyStr(book_num) \o <<"|">>

\* the chapter prefix without its closing separator
chapter_pattern_NoBar(book_num, chapter) ==
    <<"[">> \o PyStr(book_num) \o <<"|">> \o PyStr(chapter)

\* f'[{book_num}|{chapter}|'
chapter_pattern(book_num, chapter) ==
    <<"[">> \o PyStr(book_num) \o <<"|">> \o PyStr(chapter) \o <<"|">>

\* f'[{book_num}|{chapter}|{verse_num}]'
verse_pattern(book_num, chapter, verse_num) ==
    chapter_pattern(book_num, chapter) \o PyStr(verse_num) \o <<"]">>

\* the indices of the rows a boolean mask keeps, in file order
RowsWhere(d, Keep(_)) == SelectSeq([i \in 1..Len(d) |-> i], LAMBDA i : Keep(d[i]))

\* one verse's list after a row: created when new, the word appended when kept
AddWord(verses, verse, w) ==
    LET had == IF DictHas(verses, verse) THEN DictGet(verses, verse) ELSE <<>>
    IN  DictSet(verses, verse, IF KeepWord(w) THEN Append(had, w) ELSE had)

\* the verse nodes of one chapter's dict: sorted, a verse without words left out
VerseNodes(verses) ==
    LET order == SortedInts(DictKeys(verses))
        kept == SelectSeq(order, LAMBDA v : DictGet(verses, v) # <<>>)
    IN  [i \in 1..Len(kept) |-> [verse |-> kept[i], words |-> DictGet(verses, kept[i])]]

RECURSIVE BookLoop(_, _, _)
\* the loop over book_data.iterrows(): chapters[chapter][verse] lists
BookLoop(d, rows, chapters) ==
    IF rows = <<>> THEN chapters
    ELSE LET row == d[Head(rows)]
             m == RefMatch(row.ref)
         IN  IF ~m.ok THEN BookLoop(d, Tail(rows), chapters)
             ELSE LET chapter == PyInt(m.groups[2])
                      verse == PyInt(m.groups[3])
                      had == IF DictHas(chapters, chapter)
                             THEN DictGet(chapters, chapter) ELSE <<>>
                  IN  BookLoop(d, Tail(rows),
                               DictSet(chapters, chapter,
                                       AddWord(had, verse, WordData(row, Head(rows)))))

extract_book(book_num, d) ==
    LET book_data == RowsWhere(d, LAMBDA r : StartsWith(r.ref, book_pattern(book_num)))
        chapters == BookLoop(d, book_data, <<>>)
        order == SortedInts(DictKeys(chapters))
    IN  IF book_data = <<>> THEN [chapters |-> <<>>]
        ELSE [chapters |->
                [i \in 1..Len(order) |->
                    [chapter |-> order[i],
                     verses |-> VerseNodes(DictGet(chapters, order[i]))]]]

RECURSIVE ChapterLoop(_, _, _)
\* the loop over chapter_data.iterrows(): verses[verse] lists
ChapterLoop(d, rows, verses) ==
    IF rows = <<>> THEN verses
    ELSE LET row == d[Head(rows)]
             m == RefMatch(row.ref)
         IN  IF ~m.ok THEN ChapterLoop(d, Tail(rows), verses)
             ELSE ChapterLoop(d, Tail(rows),
                              AddWord(verses, PyInt(m.groups[3]),
                                      WordData(row, Head(rows))))

extract_chapter(book_num, chapter, d) ==
    LET chapter_data ==
            RowsWhere(d, LAMBDA r : StartsWith(r.ref, chapter_pattern(book_num, chapter)))
    IN  VerseNodes(ChapterLoop(d, chapter_data, <<>>))

\* one verse's words selected by the start of the key, the closing bracket
\* not compared
VerseWords_Prefix(book_num, chapter, verse_num, d) ==
    LET verse_data ==
            RowsWhere(d, LAMBDA r :
                StartsWith(r.ref, chapter_pattern(book_num, chapter) \o PyStr(verse_num)))
        words == [i \in 1..Len(verse_data) |-> WordData(d[verse_data[i]], verse_data[i])]
    IN  SelectSeq(words, KeepWord)

\* the words of the rows whose key equals one verse's pattern
VerseWords(book_num, chapter, verse_num, d) ==
    LET verse_data ==
            RowsWhere(d, LAMBDA r : r.ref = verse_pattern(book_num, chapter, verse_num))
        words == [i \in 1..Len(verse_data) |-> WordData(d[verse_data[i]], verse_data[i])]
    IN  SelectSeq(words, KeepWord)

RECURSIVE VerseRangeLoop(_, _, _, _, _)
\* for verse_num in range(start_verse, end_verse + 1)
VerseRangeLoop(book_num, chapter, verse_num, end_verse, d) ==
    IF verse_num > end_verse THEN <<>>
    ELSE LET words == VerseWords(book_num, chapter, verse_num, d)
             rest == VerseRangeLoop(book_num, chapter, verse_num + 1, end_verse, d)
         IN  IF words # <<>> THEN <<[verse |-> verse_num, words |-> words]>> \o rest
             ELSE rest

BOOK_NUMBERS ==
    40 :> "Matthew" @@ 41 :> "Mark" @@ 42 :> "Luke" @@ 43 :> "John" @@ 44 :> "Acts" @@
    45 :> "Romans" @@ 46 :> "1 Corinthians" @@ 47 :> "2 Corinthians" @@
    48 :> "Galatians" @@ 49 :> "Ephesians" @@ 50 :> "Philippians" @@
    51 :> "Colossians" @@ 52 :> "1 Thessalonians" @@ 53 :> "2 Thessalonians" @@
    54 :> "1 Timothy" @@ 55 :> "2 Timothy" @@ 56 :> "Titus" @@ 57 :> "Philemon" @@
    58 :> "Hebrews" @@ 59 :> "James" @@ 60 :> "1 Peter" @@ 61 :> "2 Peter" @@
    62 :> "1 John" @@ 63 :> "2 John" @@ 64 :> "3 John" @@ 65 :> "Jude" @@
    66 :> "Revelation"

extract_passage(passage_ref, d) ==
    LET p == parse_passage_reference(passage_ref)
    IN  IF Raised(p) THEN p
        ELSE IF p.type = "book"
        THEN [passage |-> passage_ref, book |-> BOOK_NUMBERS[p.book_num],
              type |-> "book", chapters |-> extract_book(p.book_num, d).chapters]
        ELSE IF p.type = "chapter"
        THEN [passage |-> passage_ref, book |-> BOOK_NUMBERS[p.book_num],
              type |-> "chapter", chapter |-> p.chapter,
              verses |-> extract_chapter(p.book_num, p.chapter, d)]
        ELSE [passage |-> passage_ref, book |-> BOOK_NUMBERS[p.book_num],
              type |-> "verse_range", chapter |-> p.chapter,
              start_verse |-> p.start_verse, end_verse |-> p.end_verse,
              verses |-> VerseRangeLoop(p.book_num, p.chapter, p.start_verse,
                                        p.end_verse, d)]

(***************************************************************************)
(* Heading/verse disambiguator (fetch_esv.py)                              *)
(***************************************************************************)
verse_endings == {".", ",", ":", ";", "!", "?", "\"", "'"}

MaxHeadingLen == 80

\* the heuristic without the test of the length
is_likely_heading_NoLength(text) ==
    IF text = <<>> THEN FALSE
    ELSE text[Len(text)] \notin verse_endings

is_likely_heading(text) ==
    IF text = <<>> \/ Len(text) > MaxHeadingLen THEN FALSE
    ELSE text[Len(text)] \notin verse_endings

\* whether r'\[(\d+)\]' matches s at index i
MarkerAt(s, i) ==
    LET j == RunEnd(s, i + 1, "D+")
    IN  s[i] = "[" /\ j > i + 1 /\ j <= Len(s) /\ s[j] = "]"

\* re.finditer(r'\[(\d+)\]', s): the matches left to right, each with its
\* first index, the index past its end and its digits.  A match holds no "["
\* but its first character, so no two matches overlap.
FindMarkers(s) ==
    LET starts == SetToSeq({i \in 1..Len(s) : MarkerAt(s, i)})
    IN  [k \in 1..Len(starts) |->
            LET j == RunEnd(s, starts[k] + 1, "D+")
            IN  [start |-> starts[k], end |-> j + 1,
                 digits |-> SubSeq(s, starts[k] + 1, j - 1)]]

RECURSIVE PyJoin(_, _)
\* sep.join(parts)
PyJoin(parts, sep) ==
    IF parts = <<>> THEN <<>>
    ELSE IF Len(parts) = 1 THEN parts[1]
    ELSE parts[1] \o sep \o PyJoin(Tail(parts), sep)

\* re.sub(r'\s+', ' ', s): a run of whitespace becomes one space
CollapseSpaces(s) ==
    LET marked == [i \in 1..Len(s) |->
                      [c |-> IF IsSpace(s[i]) THEN " " ELSE s[i],
                       drop |-> IsSpace(s[i]) /\ i > 1 /\ IsSpace(s[i - 1])]]
        kept == SelectSeq(marked, LAMBDA m : ~m.drop)
    IN  [i \in 1..Len(kept) |-> kept[i].c]

\* no heading: None, which `if current_heading` treats like the empty string
NoHeading == <<>>

\* the search before the first marker that goes on past a line that is no
\* heading, to the last heading-shaped line
HeadingBeforeFirst_AnyLine(before_first) ==
    IF before_first = <<>> THEN NoHeading
    ELSE LET lines == PySplit(before_first, "\n")
             shaped == {i \in 1..Len(lines) : is_likely_heading(PyStrip(lines[i]))}
         IN  IF shaped = {} THEN NoHeading
             ELSE PyStrip(lines[CHOOSE i \in shaped : \A j \in shaped : j <= i])

\* the heading found before the first marker: the last non-blank line of the
\* stripped text before it, when it looks like a heading
HeadingBeforeFirst(before_first) ==
    IF before_first = <<>> THEN NoHeading
    ELSE LET lines == PySplit(before_first, "\n")
             nonblank == {i \in 1..Len(lines) : PyStrip(lines[i]) # <<>>}
         IN  IF nonblank = {} THEN NoHeading
             ELSE LET last == CHOOSE i \in nonblank : \A j \in nonblank : j <= i
                  IN  IF is_likely_heading(PyStrip(lines[last]))
                      THEN PyStrip(lines[last]) ELSE NoHeading

\* the heading branch of the line loop that keeps the line as verse text too
ClassifyLine_HeadingAlsoText(st, line) ==
    LET stripped == PyStrip(line)
    IN  IF stripped = <<>> THEN [st EXCEPT !.blank_line_seen = TRUE]
        ELSE IF st.blank_line_seen
        THEN IF is_likely_heading(stripped)
             THEN [st EXCEPT !.trailing_heading = stripped,
                             !.verse_lines = Append(@, stripped)]
             ELSE [st EXCEPT !.verse_lines = Append(@, stripped),
                             !.blank_line_seen = FALSE]
        ELSE [st EXCEPT !.verse_lines = Append(@, stripped)]

\* the line loop whose continuation branch leaves blank_line_seen set
ClassifyLine_FlagStays(st, line) ==
    LET stripped == PyStrip(line)
    IN  IF stripped = <<>> THEN [st EXCEPT !.blank_line_seen = TRUE]
        ELSE IF st.blank_line_seen
        THEN IF is_likely_heading(stripped)
             THEN [st EXCEPT !.trailing_heading = stripped]
             ELSE [st EXCEPT !.verse_lines = Append(@, stripped)]
        ELSE [st EXCEPT !.verse_lines = Append(@, stripped)]

\* one pass of `for line in lines` over the loop's three locals
ClassifyLine(st, line) ==
    LET stripped == PyStrip(line)
    IN  IF stripped = <<>> THEN [st EXCEPT !.blank_line_seen = TRUE]
        ELSE IF st.blank_line_seen
        THEN IF is_likely_heading(stripped)
             THEN [st EXCEPT !.trailing_heading = stripped]
             ELSE [st EXCEPT !.verse_lines = Append(@, stripped),
                             !.blank_line_seen = FALSE]
        ELSE [st EXCEPT !.verse_lines = Append(@, stripped)]

RECURSIVE ClassifyLines(_, _)
ClassifyLines(st, lines) ==
    IF lines = <<>> THEN st
    ELSE ClassifyLines(ClassifyLine(st, Head(lines)), Tail(lines))

\* the segment of one marker split into verse lines and a trailing heading
ScanSegment(segment) ==
    ClassifyLines([verse_lines |-> <<>>, trailing_heading |-> NoHeading,
                   blank_line_seen |-> FALSE],
                  PySplit(segment, "\n"))

RECURSIVE MarkerLoop_KeepEmpty(_, _, _, _)
\* the loop without `if verse_text`: a verse for every marker
MarkerLoop_KeepEmpty(text, matches, i, current_heading) ==
    IF i > Len(matches) THEN <<>>
    ELSE LET end_pos == IF i + 1 <= Len(matches) THEN matches[i + 1].start
                        ELSE Len(text) + 1
             scan == ScanSegment(SubSeq(text, matches[i].end, end_pos - 1))
             verse_text == PyStrip(CollapseSpaces(PyJoin(scan.verse_lines, <<" ">>)))
             verse_data ==
                 IF current_heading # NoHeading
                 THEN [verse |-> PyInt(matches[i].digits), text |-> verse_text,
                       heading |-> current_heading]
                 ELSE [verse |-> PyInt(matches[i].digits), text |-> verse_text]
         IN  <<verse_data>>
                 \o MarkerLoop_KeepEmpty(text, matches, i + 1, scan.trailing_heading)

RECURSIVE MarkerLoop_HeadingWaits(_, _, _, _)
\* the marker loop in which a heading not taken by an omitted verse stays
\* pending for the next marker
MarkerLoop_HeadingWaits(text, matches, i, current_heading) ==
    IF i > Len(matches) THEN <<>>
    ELSE LET end_pos == IF i + 1 <= Len(matches) THEN matches[i + 1].start
                        ELSE Len(text) + 1
             scan == ScanSegment(SubSeq(text, matches[i].end, end_pos - 1))
             verse_text == PyStrip(CollapseSpaces(PyJoin(scan.verse_lines, <<" ">>)))
             verse_data ==
                 IF current_heading # NoHeading
                 THEN [verse |-> PyInt(matches[i].digits), text |-> verse_text,
                       heading |-> current_heading]
                 ELSE [verse |-> PyInt(matches[i].digits), text |-> verse_text]
             pending == IF verse_text = <<>> /\ scan.trailing_heading = NoHeading
                        THEN current_heading ELSE scan.trailing_heading
             rest == MarkerLoop_HeadingWaits(text, matches, i + 1, pending)
         IN  IF verse_text # <<>> THEN <<verse_data>> \o rest ELSE rest

RECURSIVE MarkerLoop(_, _, _, _)
\* for i, match in enumerate(matches), with current_heading carried along
MarkerLoop(text, matches, i, current_heading) ==
    IF i > Len(matches) THEN <<>>
    ELSE LET end_pos == IF i + 1 <= Len(matches) THEN matches[i + 1].start
                        ELSE Len(text) + 1
             scan == ScanSegment(SubSeq(text, matches[i].end, end_pos - 1))
             verse_text == PyStrip(CollapseSpaces(PyJoin(scan.verse_lines, <<" ">>)))
             verse_data ==
                 IF current_heading # NoHeading
                 THEN [verse |-> PyInt(matches[i].digits), text |-> verse_text,
                       heading |-> current_heading]
                 ELSE [verse |-> PyInt(matches[i].digits), text |-> verse_text]
             rest == MarkerLoop(text, matches, i + 1, scan.trailing_heading)
         IN  IF verse_text # <<>> THEN <<verse_data>> \o rest ELSE rest

parse_esv_verses_with_headings(passage_text0) ==
    LET text == PyStrip(passage_text0)
        matches == FindMarkers(text)
    IN  IF matches = <<>> THEN <<>>
        ELSE MarkerLoop(text, matches, 1,
                        HeadingBeforeFirst(PyStrip(SubSeq(text, 1, matches[1].start - 1))))

(***************************************************************************)
(* Multi-source merger (generate_latex.py, generate_multi_latex.py).  A    *)
(* Python dict with optional keys is a record; d.get(k, default) is Get.   *)
(***************************************************************************)
Get(d, k, default) == IF k \in DOMAIN d THEN d[k] ELSE default

\* {"text": v.get("text", ""), "heading": v.get("heading", "")}
VerseEntry(v) == [text |-> Get(v, "text", <<>>), heading |-> Get(v, "heading", <<>>)]

EmptyEntry == [text |-> <<>>, heading |-> <<>>]

RECURSIVE VerseLookup(_, _)
\* the dict verse number -> entry built from a list of translation verses
VerseLookup(tverses, lookup) ==
    IF tverses = <<>> THEN lookup
    ELSE VerseLookup(Tail(tverses),
                     DictSet(lookup, Head(tverses).verse, VerseEntry(Head(tverses))))

\* a lookup that on a miss falls back on its first entry
DictGetOr_FirstOnMiss(d, k, default) ==
    IF DictHas(d, k) THEN DictGet(d, k)
    ELSE IF d # <<>> THEN d[1][2] ELSE default

\* lookup.get(k, default)
DictGetOr(d, k, default) == IF DictHas(d, k) THEN DictGet(d, k) ELSE default

\* the loop of merge_verse_data that leaves out a verse the translation lacks
merge_verse_data_SkipMissing(greek_verses, esv_verses) ==
    LET esv_lookup == VerseLookup(esv_verses, <<>>)
        have == SelectSeq(greek_verses, LAMBDA gv : DictHas(esv_lookup, gv.verse))
    IN  [i \in 1..Len(have) |->
            [number |-> have[i].verse,
             greek_words |-> Get(have[i], "words", <<>>),
             esv_text |-> DictGet(esv_lookup, have[i].verse).text,
             heading |-> DictGet(esv_lookup, have[i].verse).heading]]

merge_verse_data(greek_verses, esv_verses) ==
    LET esv_lookup == VerseLookup(esv_verses, <<>>)
    IN  [i \in 1..Len(greek_verses) |->
            LET esv_entry == DictGetOr(esv_lookup, greek_verses[i].verse, EmptyEntry)
            IN  [number |-> greek_verses[i].verse,
                 greek_words |-> Get(greek_verses[i], "words", <<>>),
                 esv_text |-> esv_entry.text,
                 heading |-> esv_entry.heading]]

RECURSIVE ChapterLookupLoop(_, _)
ChapterLookupLoop(tchapters, lookup) ==
    IF tchapters = <<>> THEN lookup
    ELSE ChapterLookupLoop(Tail(tchapters),
                           DictSet(lookup, Head(tchapters).chapter,
                                   VerseLookup(Head(tchapters).verses, <<>>)))

\* build_chapter_lookup, and the same lines at the head of merge_book_data
build_chapter_lookup(data) ==
    IF Get(data, "type", "") = "book" /\ "chapters" \in DOMAIN data
    THEN ChapterLookupLoop(data.chapters, <<>>)
    ELSE IF "verses" \in DOMAIN data
    THEN <<<<1, VerseLookup(data.verses, <<>>)>>>>
    ELSE <<>>

\* the copy of one Greek word: greek, gloss and, when present, strongs
CopyWord(word) ==
    IF "strongs" \in DOMAIN word
    THEN [greek |-> Get(word, "greek", <<>>), gloss |-> Get(word, "gloss", <<>>),
          strongs |-> word.strongs]
    ELSE [greek |-> Get(word, "greek", <<>>), gloss |-> Get(word, "gloss", <<>>)]

CopyWords(greek_verse) ==
    LET words == Get(greek_verse, "words", <<>>)
    IN  [j \in 1..Len(words) |-> CopyWord(words[j])]

merge_book_data(greek, esv) ==
    LET esv_chapters == build_chapter_lookup(esv)
        gchapters == Get(greek, "chapters", <<>>)
    IN  [c \in 1..Len(gchapters) |->
            LET esv_verse_lookup == DictGetOr(esv_chapters, gchapters[c].chapter, <<>>)
                gverses == Get(gchapters[c], "verses", <<>>)
            IN  [number |-> gchapters[c].chapter,
                 verses |->
                    [i \in 1..Len(gverses) |->
                        LET e == DictGetOr(esv_verse_lookup, gverses[i].verse, EmptyEntry)
                        IN  [number |-> gverses[i].verse,
                             greek_words |-> CopyWords(gverses[i]),
                             esv_text |-> e.text,
                             heading |-> e.heading]]]]

\* the merge that takes the heading of the NET when the ESV has none
merge_multi_book_data_AnyHeading(greek, esv, net, kjv) ==
    LET esv_chapters == build_chapter_lookup(esv)
        net_chapters == build_chapter_lookup(net)
        kjv_chapters == build_chapter_lookup(kjv)
        gchapters == Get(greek, "chapters", <<>>)
    IN  [c \in 1..Len(gchapters) |->
            LET esv_lookup == DictGetOr(esv_chapters, gchapters[c].chapter, <<>>)
                net_lookup == DictGetOr(net_chapters, gchapters[c].chapter, <<>>)
                kjv_lookup == DictGetOr(kjv_chapters, gchapters[c].chapter, <<>>)
                gverses == Get(gchapters[c], "verses", <<>>)
            IN  [number |-> gchapters[c].chapter,
                 verses |->
                    [i \in 1..Len(gverses) |->
                        LET esv_verse == DictGetOr(esv_lookup, gverses[i].verse, EmptyEntry)
                            net_verse == DictGetOr(net_lookup, gverses[i].verse, EmptyEntry)
                            kjv_verse == DictGetOr(kjv_lookup, gverses[i].verse, EmptyEntry)
                        IN  [number |-> gverses[i].verse,
                             greek_words |-> CopyWords(gverses[i]),
                             esv_text |-> esv_verse.text,
                             net_text |-> net_verse.text,
                             kjv_text |-> kjv_verse.text,
                             heading |-> IF Get(esv_verse, "heading", <<>>) # <<>>
                                         THEN esv_verse.heading
                                         ELSE Get(net_verse, "heading", <<>>)]]]]

merge_multi_book_data(greek, esv, net, kjv) ==
    LET esv_chapters == build_chapter_lookup(esv)
        net_chapters == build_chapter_lookup(net)
        kjv_chapters == build_chapter_lookup(kjv)
        gchapters == Get(greek, "chapters", <<>>)
    IN  [c \in 1..Len(gchapters) |->
            LET esv_lookup == DictGetOr(esv_chapters, gchapters[c].chapter, <<>>)
                net_lookup == DictGetOr(net_chapters, gchapters[c].chapter, <<>>)
                kjv_lookup == DictGetOr(kjv_chapters, gchapters[c].chapter, <<>>)
                gverses == Get(gchapters[c], "verses", <<>>)
            IN  [number |-> gchapters[c].chapter,
                 verses |->
                    [i \in 1..Len(gverses) |->
                        LET esv_verse == DictGetOr(esv_lookup, gverses[i].verse, EmptyEntry)
                            net_verse == DictGetOr(net_lookup, gverses[i].verse, EmptyEntry)
                            kjv_verse == DictGetOr(kjv_lookup, gverses[i].verse, EmptyEntry)
                        IN  [number |-> gverses[i].verse,
                             greek_words |-> CopyWords(gverses[i]),
                             esv_text |-> esv_verse.text,
                             net_text |-> net_verse.text,
                             kjv_text |-> kjv_verse.text,
                             heading |-> Get(esv_verse, "heading", <<>>)]]]]

(***************************************************************************)
(* Reference strings handed to parse_passage_reference                     *)
(***************************************************************************)
MaxPad == 1     \* spaces before and after the reference
MaxGap == 2     \* spaces between the book name and the numerals

Spaces(n) == [i \in 1..n |-> " "]

ChapterNumerals == {<<"3">>, <<"0", "7">>}
VerseNumerals == {<<"2">>, <<"1", "6">>}

IsLetter(c) == c \in Range(LowerChars) \cup Range(UpperChars)

\* a key of BOOK_NAMES in another casing
Recase(k, how) ==
    IF how = "lower" THEN k
    ELSE IF how = "upper" THEN [i \in 1..Len(k) |-> UpperChar(k[i])]
    ELSE LET f == CHOOSE i \in 1..Len(k) :
                      IsLetter(k[i]) /\ \A j \in 1..(i - 1) : ~IsLetter(k[j])
         IN  [i \in 1..Len(k) |-> IF i = f THEN UpperChar(k[i]) ELSE k[i]]

\* one more space after the p-th character (p = 0: none)
Respace(k, p) ==
    IF p = 0 THEN k ELSE SubSeq(k, 1, p) \o <<" ">> \o SubSeq(k, p + 1, Len(k))

ValidForms == {"range", "single", "chapter", "book"}
BadForms == {"nospace", "nocolon_verse", "open_range", "spaced_colon", "two_ranges"}

UnknownNames ==
    { <<"j","u","d","a","s">>, <<"4","j","o","h","n">>, <<"j","o","h","n","3">>,
      <<"E","p","h","e","s","u","s">>, <<"1">> }

\* the reference a source record spells
Compose(src) ==
    LET gap == Spaces(src.gap)
        body ==
            CASE src.form = "range" ->
                   src.name \o gap \o src.c \o <<":">> \o src.v1 \o <<"-">> \o src.v2
              [] src.form = "single" -> src.name \o gap \o src.c \o <<":">> \o src.v1
              [] src.form = "chapter" -> src.name \o gap \o src.c
              [] src.form = "book" -> src.name
              [] src.form = "nospace" -> src.name \o src.c
              [] src.form = "nocolon_verse" -> src.name \o gap \o src.c \o <<":">>
              [] src.form = "open_range" ->
                   src.name \o gap \o src.c \o <<":">> \o src.v1 \o <<"-">>
              [] src.form = "spaced_colon" ->
                   src.name \o gap \o src.c \o <<":">> \o gap \o src.v1
              [] src.form = "two_ranges" ->
                   src.name \o gap \o src.c \o <<":">> \o src.v1 \o <<"-">> \o src.v2
                       \o <<"-">> \o src.v2
    IN  Spaces(src.lead) \o body \o Spaces(src.trail)

\* the numerals a form carries; the unused ones are fixed
FormNumerals(form) ==
    LET c0 == {<<"3">>}
        v0 == {<<"2">>}
    IN  CASE form = "book" -> [c : c0, v1 : v0, v2 : v0, gap : {1}]
          [] form = "nospace" -> [c : ChapterNumerals, v1 : v0, v2 : v0, gap : {1}]
          [] form \in {"chapter", "nocolon_verse"} ->
               [c : ChapterNumerals, v1 : v0, v2 : v0, gap : 1..MaxGap]
          [] form \in {"single", "open_range", "spaced_colon"} ->
               [c : ChapterNumerals, v1 : VerseNumerals, v2 : v0, gap : 1..MaxGap]
          [] OTHER ->
               [c : ChapterNumerals, v1 : VerseNumerals, v2 : VerseNumerals,
                gap : 1..MaxGap]

RefSource(key, name, form, n, lead, trail) ==
    [key |-> key, name |-> name, form |-> form, c |-> n.c, v1 |-> n.v1, v2 |-> n.v2,
     gap |-> n.gap, lead |-> lead, trail |-> trail]

\* key = 0: the name is no spelling of a key of BOOK_NAMES
KnownName(src) == src.key # 0

InitRef ==
    /\ pc = "ref_ready"
    /\ \/ \E i \in DOMAIN BOOK_NAMES, how \in {"lower", "upper", "title"},
             form \in ValidForms, lead \in 0..MaxPad, trail \in 0..MaxPad :
             \E p \in 0..(Len(BOOK_NAMES[i][1]) - 1), n \in FormNumerals(form) :
                 ref_src = RefSource(i, Respace(Recase(BOOK_NAMES[i][1], how), p),
                                     form, n, lead, trail)
       \/ \E u \in UnknownNames, form \in ValidForms,
             lead \in 0..MaxPad, trail \in 0..MaxPad :
             \E n \in FormNumerals(form) :
                 ref_src = RefSource(0, u, form, n, lead, trail)
       \/ \E i \in DOMAIN BOOK_NAMES, form \in BadForms,
             lead \in 0..MaxPad, trail \in 0..MaxPad :
             \E n \in FormNumerals(form) :
                 ref_src = RefSource(i, BOOK_NAMES[i][1], form, n, lead, trail)
    /\ ref = Compose(ref_src)
    /\ parsed = <<>>
    /\ df = <<>> /\ req = <<>> /\ tree = <<>>
    /\ passage_text = <<>> /\ text_src = <<>> /\ parsed_verses = <<>>
    /\ greek_data = <<>> /\ esv_data = <<>> /\ net_data = <<>> /\ kjv_data = <<>>
    /\ merged = <<>>
    /\ LexIdle
    /\ RenderIdle
    /\ FetchIdle
    /\ cell_text = <<>> /\ cell_src = <<>> /\ decoded = <<>> /\ redecoded = <<>>

ParseReference ==
    /\ pc = "ref_ready"
    /\ parsed' = parse_passage_reference(ref)
    /\ pc' = "ref_done"
    /\ UNCHANGED <<ref, ref_src, aggVars, esvVars, mergeVars, decVars, lexVars, renderVars, fetchVars>>

NextRef == ParseReference

SpecRef == InitRef /\ [][NextRef]_vars

(***************************************************************************)
(* Corpora and aggregator calls                                            *)
(***************************************************************************)
MaxRows == 3    \* rows of the corpus

RowKey(b, c, v) == <<"[">> \o b \o <<"|">> \o c \o <<"|">> \o v \o <<"]">>

\* books 4 and 40, chapters 1, 2 and 10, verses 1, 2 and 10: numbers that
\* are decimal prefixes of one another and that sort differently as text
CorpusKeys ==
    { RowKey(<<"4", "0">>, <<"1">>, <<"2">>), RowKey(<<"4", "0">>, <<"1">>, <<"1", "0">>),
      RowKey(<<"4", "0">>, <<"2">>, <<"1">>), RowKey(<<"4", "0">>, <<"1", "0">>, <<"1">>),
      RowKey(<<"4">>, <<"1">>, <<"1">>) }

\* [X=ab=G0976=N;] : surface ab, identifier G976
TanttWord == <<"[", "X", "=", "a", "b", "=", "G", "0", "9", "7", "6", "=", "N", ";", "]">>
\* [X= cd =N] : surface cd, no identifier
TanttPlain == <<"[", "X", "=", " ", "c", "d", " ", "=", "N", "]">>
\* [X] : no '=' separator, no surface
TanttNoWord == <<"[", "X", "]">>
\* [a|b|c] : third gloss c
GlossThird == <<"[", "a", "|", "b", "|", "c", "]">>
\* [a|b| ] : the third gloss is blank, the first is a
GlossFirst == <<"[", "a", "|", "b", "|", " ", "]">>
\* [ |b| ] : no usable gloss
GlossNone == <<"[", " ", "|", "b", "|", " ", "]">>

\* a usable word, a surface without gloss, a gloss without surface
CorpusCells ==
    { <<TanttWord, GlossThird>>, <<TanttPlain, GlossNone>>, <<TanttNoWord, GlossFirst>> }

CorpusRows == {[ref |-> k, tantt |-> c[1], gloss |-> c[2]] : k \in CorpusKeys, c \in CorpusCells}

Corpora == UNION {[1..n -> CorpusRows] : n \in 0..MaxRows}

RequestBooks == {4, 40}
RequestChapters == {1, 10}

Chars_Matthew == <<"M", "a", "t", "t", "h", "e", "w">>

\* "Matthew", "Mark", "Mt 1", "Mt 10", "Mt 1:1-2", "Mt 1:2-10", "Mt 1:10", "Mt 1:2-1"
PassageRefs ==
    { Chars_Matthew, <<"M", "a", "r", "k">>,
      <<"M", "t", " ", "1">>, <<"M", "t", " ", "1", "0">>,
      <<"M", "t", " ", "1", ":", "1", "-", "2">>,
      <<"M", "t", " ", "1", ":", "2", "-", "1", "0">>,
      <<"M", "t", " ", "1", ":", "1", "0">>,
      <<"M", "t", " ", "1", ":", "2", "-", "1">> }

\* the call a request record stands for
Call(r, d) ==
    CASE r.op = "extract_book" -> extract_book(r.book_num, d)
      [] r.op = "extract_chapter" -> extract_chapter(r.book_num, r.chapter, d)
      [] r.op = "extract_passage" -> extract_passage(r.passage_ref, d)

InitAgg ==
    /\ pc = "agg_ready"
    /\ df \in Corpora
    /\ req = <<>> /\ tree = <<>>
    /\ ref = <<>> /\ ref_src = <<>> /\ parsed = <<>>
    /\ passage_text = <<>> /\ text_src = <<>> /\ parsed_verses = <<>>
    /\ greek_data = <<>> /\ esv_data = <<>> /\ net_data = <<>> /\ kjv_data = <<>>
    /\ merged = <<>>
    /\ LexIdle
    /\ RenderIdle
    /\ FetchIdle
    /\ cell_text = <<>> /\ cell_src = <<>> /\ decoded = <<>> /\ redecoded = <<>>

ExtractBook ==
    /\ pc = "agg_ready"
    /\ \E b \in RequestBooks :
           /\ req' = [op |-> "extract_book", book_num |-> b]
           /\ tree' = extract_book(b, df)
    /\ pc' = "agg_done"
    /\ UNCHANGED <<df, refVars, esvVars, mergeVars, decVars, lexVars, renderVars, fetchVars>>

ExtractChapter ==
    /\ pc = "agg_ready"
    /\ \E b \in RequestBooks, c \in RequestChapters :
           /\ req' = [op |-> "extract_chapter", book_num |-> b, chapter |-> c]
           /\ tree' = extract_chapter(b, c, df)
    /\ pc' = "agg_done"
    /\ UNCHANGED <<df, refVars, esvVars, mergeVars, decVars, lexVars, renderVars, fetchVars>>

ExtractPassage ==
    /\ pc = "agg_ready"
    /\ \E r \in PassageRefs :
           /\ req' = [op |-> "extract_passage", passage_ref |-> r]
           /\ tree' = extract_passage(r, df)
    /\ pc' = "agg_done"
    /\ UNCHANGED <<df, refVars, esvVars, mergeVars, decVars, lexVars, renderVars, fetchVars>>

\* the same call once more on the same corpus
ExtractAgain ==
    /\ pc = "agg_done"
    /\ tree' = Call(req, df)
    /\ pc' = "agg_again"
    /\ UNCHANGED <<df, req, refVars, esvVars, mergeVars, decVars, lexVars, renderVars, fetchVars>>

NextAgg == ExtractBook \/ ExtractChapter \/ ExtractPassage \/ ExtractAgain

SpecAgg == InitAgg /\ [][NextAgg]_vars

(***************************************************************************)
(* Corpora whose row keys write their numbers in more than one way: each   *)
(* row holds a usable word.                                                *)
(***************************************************************************)
MaxKeyRows == 2

\* Matthew 1:2 written plainly and with a leading zero in the book, the
\* chapter or the verse; Matthew 2:1; book 4
WrittenKeys ==
    { RowKey(<<"4", "0">>, <<"1">>, <<"2">>), RowKey(<<"0", "4", "0">>, <<"1">>, <<"2">>),
      RowKey(<<"4", "0">>, <<"0", "1">>, <<"2">>), RowKey(<<"4", "0">>, <<"1">>, <<"0", "2">>),
      RowKey(<<"4", "0">>, <<"2">>, <<"1">>), RowKey(<<"4">>, <<"1">>, <<"1">>) }

WrittenRows == {[ref |-> k, tantt |-> TanttWord, gloss |-> GlossThird] : k \in WrittenKeys}

InitKeys ==
    /\ pc = "agg_ready"
    /\ df \in UNION {[1..n -> WrittenRows] : n \in 0..MaxKeyRows}
    /\ req = <<>> /\ tree = <<>>
    /\ ref = <<>> /\ ref_src = <<>> /\ parsed = <<>>
    /\ passage_text = <<>> /\ text_src = <<>> /\ parsed_verses = <<>>
    /\ greek_data = <<>> /\ esv_data = <<>> /\ net_data = <<>> /\ kjv_data = <<>>
    /\ merged = <<>>
    /\ cell_text = <<>> /\ cell_src = <<>> /\ decoded = <<>> /\ redecoded = <<>>
    /\ LexIdle
    /\ RenderIdle
    /\ FetchIdle

SpecKeys == InitKeys /\ [][NextAgg]_vars

(***************************************************************************)
(* Translation texts handed to parse_esv_verses_with_headings.  A text is  *)
(* composed from a sequence of items: "M" a verse marker, "B" a blank      *)
(* line, "H" a short line without final punctuation, "T" a line ending in  *)
(* a punctuation mark, "L" a line too long for a heading.  The k-th marker *)
(* is [k]; every line carries its position, so no two lines are equal.     *)
(***************************************************************************)
MaxItems == 6   \* items of a translation text

ItemKinds == {"M", "B", "H", "T", "L"}

\* the marks a "T" line may end in
LineEndings == <<",", ":", ".", ";", "\"", "?", "!", "'">>

\* the line of kind `kind` at position p of a text of n items; the mark a
\* "T" line ends in goes through LineEndings with p + n
LineContent(kind, p, n) ==
    CASE kind = "B" -> <<>>
      [] kind = "H" -> <<"H", "d">> \o PyStr(p)
      [] kind = "T" -> <<" ", "T">> \o PyStr(p)
                           \o <<LineEndings[((p + n) % Len(LineEndings)) + 1]>>
      [] kind = "L" -> <<"L">> \o PyStr(p)
                           \o [k \in 1..(MaxHeadingLen - Len(PyStr(p))) |-> "x"]

\* the markers among the first p items
MarkersUpTo(items, p) == Cardinality({q \in 1..p : items[q] = "M"})

RECURSIVE RenderItems(_, _)
\* the text of the items from position p on: a line is separated from the
\* line before it by a newline, a marker is written where the line stands
RenderItems(items, p) ==
    IF p > Len(items) THEN <<>>
    ELSE (IF items[p] = "M"
          THEN <<"[">> \o PyStr(MarkersUpTo(items, p)) \o <<"]">>
          ELSE (IF p > 1 /\ items[p - 1] # "M" THEN <<"\n">> ELSE <<>>)
                   \o LineContent(items[p], p, Len(items)))
         \o RenderItems(items, p + 1)

InitEsv ==
    /\ pc = "esv_ready"
    /\ \E n \in 0..MaxItems : text_src \in [1..n -> ItemKinds]
    /\ passage_text = RenderItems(text_src, 1)
    /\ parsed_verses = <<>>
    /\ ref = <<>> /\ ref_src = <<>> /\ parsed = <<>>
    /\ df = <<>> /\ req = <<>> /\ tree = <<>>
    /\ greek_data = <<>> /\ esv_data = <<>> /\ net_data = <<>> /\ kjv_data = <<>>
    /\ merged = <<>>
    /\ LexIdle
    /\ RenderIdle
    /\ FetchIdle
    /\ cell_text = <<>> /\ cell_src = <<>> /\ decoded = <<>> /\ redecoded = <<>>

ParseEsvVerses ==
    /\ pc = "esv_ready"
    /\ parsed_verses' = parse_esv_verses_with_headings(passage_text)
    /\ pc' = "esv_done"
    /\ UNCHANGED <<passage_text, text_src, refVars, aggVars, mergeVars, decVars, lexVars, renderVars, fetchVars>>

NextEsv == ParseEsvVerses

SpecEsv == InitEsv /\ [][NextEsv]_vars

(***************************************************************************)
(* Greek trees and translation passages handed to the mergers.  A Greek    *)
(* tree has the shape the aggregator returns: verses in increasing order,  *)
(* each with its words.  A translation covers all, some or none of the     *)
(* verses, with or without headings.                                       *)
(***************************************************************************)
MaxVerse == 2   \* verse numbers of a chapter

VerseNumbers == 1..MaxVerse

GreekChapters == {1, 2}

Word_en == [greek |-> <<"e", "n">>, gloss |-> <<"i", "n">>, strongs |-> <<"G", "1", "7", "2", "2">>]

Word_o == [greek |-> <<"o">>, gloss |-> <<"t", "h", "e">>]

\* the words of verse n of chapter c
GreekWords(c, n) ==
    IF (c + n) % 2 = 0 THEN <<Word_en, Word_o>> ELSE <<Word_o, Word_en, Word_en>>

GreekVerses(c, S) ==
    LET ns == SetToSeq(S)
    IN  [i \in 1..Len(ns) |-> [verse |-> ns[i], words |-> GreekWords(c, ns[i])]]

TranslationText(name, c, n) == name \o <<" ">> \o PyStr(c) \o <<":">> \o PyStr(n)

\* cover[n] tells whether verse n is missing, has text, or text and heading
TranslationVerses(name, c, cover) ==
    LET ns == SetToSeq({n \in DOMAIN cover : cover[n] # "none"})
    IN  [i \in 1..Len(ns) |->
            IF cover[ns[i]] = "heading"
            THEN [verse |-> ns[i], text |-> TranslationText(name, c, ns[i]),
                  heading |-> name \o <<"H">> \o PyStr(c) \o <<":">> \o PyStr(ns[i])]
            ELSE [verse |-> ns[i], text |-> TranslationText(name, c, ns[i])]]

Covers == [VerseNumbers -> {"none", "text", "heading"}]

\* what fetch_*_passage returns: a flat passage or a book
FlatTranslation(name, cover) ==
    [type |-> "verses", verses |-> TranslationVerses(name, 1, cover)]

BookTranslation(name, chs, cover) ==
    LET cs == SetToSeq(chs)
    IN  [type |-> "book",
         chapters |-> [i \in 1..Len(cs) |->
                          [chapter |-> cs[i],
                           verses |-> TranslationVerses(name, cs[i], cover)]]]

FullCover == [n \in VerseNumbers |-> "text"]

NoCover == [n \in VerseNumbers |-> "none"]

HeadingCover == [n \in VerseNumbers |-> "heading"]

\* the second and third translation: nothing, a flat passage, a book, a
\* book with a heading on every verse
OtherTranslations(name) ==
    {FlatTranslation(name, NoCover), FlatTranslation(name, FullCover),
     BookTranslation(name, GreekChapters, FullCover),
     BookTranslation(name, GreekChapters, HeadingCover)}

InitMerge ==
    /\ pc = "merge_ready"
    /\ \/ \E type \in {"chapter", "verse_range"}, S \in SUBSET VerseNumbers :
             greek_data = [type |-> type, book |-> BOOK_NUMBERS[40], chapter |-> 1,
                           verses |-> GreekVerses(1, S)]
       \/ \E chs \in SUBSET GreekChapters : \E vs \in [chs -> SUBSET VerseNumbers] :
             greek_data =
                 [type |-> "book", book |-> BOOK_NUMBERS[40],
                  chapters |-> LET cs == SetToSeq(chs)
                               IN  [i \in 1..Len(cs) |->
                                       [chapter |-> cs[i],
                                        verses |-> GreekVerses(cs[i], vs[cs[i]])]]]
    /\ \/ \E cover \in Covers : esv_data = FlatTranslation(<<"E">>, cover)
       \/ \E cover \in Covers, chs \in SUBSET GreekChapters :
             esv_data = BookTranslation(<<"E">>, chs, cover)
    /\ net_data \in OtherTranslations(<<"N">>)
    /\ kjv_data \in OtherTranslations(<<"K">>)
    /\ merged = <<>>
    /\ LexIdle
    /\ RenderIdle
    /\ FetchIdle
    /\ cell_text = <<>> /\ cell_src = <<>> /\ decoded = <<>> /\ redecoded = <<>>
    /\ ref = <<>> /\ ref_src = <<>> /\ parsed = <<>>
    /\ df = <<>> /\ req = <<>> /\ tree = <<>>
    /\ passage_text = <<>> /\ text_src = <<>> /\ parsed_verses = <<>>

\* render_document up to the merge: a book goes to merge_book_data, any
\* other shape to merge_verse_data
MergeDocument ==
    /\ pc = "merge_ready"
    /\ merged' = IF Get(greek_data, "type", "") = "book"
                 THEN merge_book_data(greek_data, esv_data)
                 ELSE merge_verse_data(Get(greek_data, "verses", <<>>),
                                       Get(esv_data, "verses", <<>>))
    /\ pc' = "merged_document"
    /\ UNCHANGED <<greek_data, esv_data, net_data, kjv_data, refVars, aggVars, esvVars, decVars, lexVars, renderVars, fetchVars>>

\* render_multi_book up to the merge, whatever the shape of the Greek tree
MergeMultiBook ==
    /\ pc = "merge_ready"
    /\ merged' = merge_multi_book_data(greek_data, esv_data, net_data, kjv_data)
    /\ pc' = "merged_multi"
    /\ UNCHANGED <<greek_data, esv_data, net_data, kjv_data, refVars, aggVars, esvVars, decVars, lexVars, renderVars, fetchVars>>

NextMerge == MergeDocument \/ MergeMultiBook

SpecMerge == InitMerge /\ [][NextMerge]_vars

(***************************************************************************)
(* Cells handed to the decoder.  An encoded cell is composed of a prefix,  *)
(* a surface form, an identifier (G, leading zeros, a numeral) and a       *)
(* morphology tag; a gloss cell of candidates separated by bars.           *)
(***************************************************************************)
MaxZeros == 2        \* leading zeros of an identifier

MaxCandidates == 4   \* candidates of a gloss cell

\* numerals without leading zeros
IdentifierNumerals == {<<"9", "7", "6">>, <<"1", "0">>, <<"0">>}

Surfaces == {<<"a", "b">>, <<" ", "c", "d", " ">>}

\* "full": [X=surface=G0976=N;]   "noid": [X=surface=N;]   "noeq": [X]
\* "bare": G0976   "empty": the empty string   "nan": a missing cell
EncodedForms == {"full", "noid", "noeq", "bare", "empty", "nan"}

Zeros(n) == [i \in 1..n |-> "0"]

Identifier(src) == <<"G">> \o Zeros(src.zeros) \o src.digits

EncodedCell(src) ==
    CASE src.form = "full" ->
             <<"[", "X", "=">> \o src.surface \o <<"=">> \o Identifier(src)
                 \o <<"=", "N", ";", "]">>
      [] src.form = "noid" -> <<"[", "X", "=">> \o src.surface \o <<"=", "N", ";", "]">>
      [] src.form = "noeq" -> <<"[", "X", "]">>
      [] src.form = "bare" -> Identifier(src)
      [] src.form = "empty" -> <<>>
      [] src.form = "nan" -> NaN

\* the k-th candidate of a gloss cell: empty, blank, or a word in blanks
Candidate(k, how) ==
    CASE how = "empty" -> <<>>
      [] how = "blank" -> <<" ">>
      [] how = "word" -> <<" ", "g">> \o PyStr(k) \o <<" ">>

GlossCell(src) ==
    CASE src.form = "list" ->
             <<"[">> \o PyJoin([k \in 1..Len(src.cands) |-> Candidate(k, src.cands[k])],
                               <<"|">>) \o <<"]">>
      [] src.form = "empty" -> <<>>
      [] src.form = "nan" -> NaN

InitDec ==
    /\ pc = "dec_ready"
    /\ \/ \E form \in EncodedForms, surface \in Surfaces,
              zeros \in 0..MaxZeros, digits \in IdentifierNumerals :
              /\ cell_src = [kind |-> "tantt", form |-> form, surface |-> surface,
                             zeros |-> zeros, digits |-> digits]
              /\ cell_text = EncodedCell(cell_src)
       \/ \E n \in 0..MaxCandidates :
              \E cands \in [1..n -> {"empty", "blank", "word"}] :
                  /\ cell_src = [kind |-> "gloss", form |-> "list", cands |-> cands]
                  /\ cell_text = GlossCell(cell_src)
       \/ \E form \in {"empty", "nan"} :
              /\ cell_src = [kind |-> "gloss", form |-> form, cands |-> <<>>]
              /\ cell_text = GlossCell(cell_src)
    /\ decoded = <<>> /\ redecoded = <<>>
    /\ ref = <<>> /\ ref_src = <<>> /\ parsed = <<>>
    /\ df = <<>> /\ req = <<>> /\ tree = <<>>
    /\ passage_text = <<>> /\ text_src = <<>> /\ parsed_verses = <<>>
    /\ greek_data = <<>> /\ esv_data = <<>> /\ net_data = <<>> /\ kjv_data = <<>>
    /\ merged = <<>>
    /\ LexIdle
    /\ RenderIdle
    /\ FetchIdle

\* the two decoders of the encoded cell
DecodeEncoded ==
    /\ pc = "dec_ready"
    /\ cell_src.kind = "tantt"
    /\ decoded' = [greek |-> extract_greek_word(cell_text),
                   strongs |-> extract_strongs_number(cell_text)]
    /\ pc' = "dec_done"
    /\ UNCHANGED <<cell_text, cell_src, redecoded, refVars, aggVars, esvVars, mergeVars, lexVars, renderVars, fetchVars>>

DecodeGloss ==
    /\ pc = "dec_ready"
    /\ cell_src.kind = "gloss"
    /\ decoded' = [gloss |-> extract_gloss(cell_text)]
    /\ pc' = "dec_done"
    /\ UNCHANGED <<cell_text, cell_src, redecoded, refVars, aggVars, esvVars, mergeVars, lexVars, renderVars, fetchVars>>

\* extract_strongs_number on the identifier it returned
NormalizeAgain ==
    /\ pc = "dec_done"
    /\ cell_src.kind = "tantt"
    /\ redecoded' = extract_strongs_number(decoded.strongs)
    /\ pc' = "dec_again"
    /\ UNCHANGED <<cell_text, cell_src, decoded, refVars, aggVars, esvVars, mergeVars, lexVars, renderVars, fetchVars>>

NextDec == DecodeEncoded \/ DecodeGloss \/ NormalizeAgain

SpecDec == InitDec /\ [][NextDec]_vars

(***************************************************************************)
(* Lexical cross-reference resolver: strongs_lookup.py.  A Greek letter    *)
(* is written as the Latin letter of the same case; the precomposed        *)
(* accented letters are written "a'", "i'", "o'", "A'", "I'", "O'" (one    *)
(* code point each) and the combining acute accent U+0301, of category Mn, *)
(* is "'".                                                                 *)
(***************************************************************************)
\* the value of a module global before its table is loaded
None == <<"None">>

\* a data file that does not exist
Missing == <<"Missing">>

PrecomposedChars == <<"a'", "i'", "o'", "A'", "I'", "O'">>

PrecomposedBases == <<"a", "i", "o", "A", "I", "O">>

PrecomposedLower == <<"a'", "i'", "o'", "a'", "i'", "o'">>

CombiningAcute == "'"

PrecomposedIndex(c) == CHOOSE i \in DOMAIN PrecomposedChars : PrecomposedChars[i] = c

RECURSIVE NFD(_)
\* unicodedata.normalize('NFD', text): a precomposed letter becomes its base
\* letter followed by the combining mark
NFD(text) ==
    IF text = <<>> THEN <<>>
    ELSE (IF Head(text) \in Range(PrecomposedChars)
          THEN <<PrecomposedBases[PrecomposedIndex(Head(text))], CombiningAcute>>
          ELSE <<Head(text)>>) \o NFD(Tail(text))

\* unicodedata.category(c) == 'Mn'
IsMn(c) == c = CombiningAcute

\* str.lower() on text with accented letters
GreekLower(text) ==
    [i \in 1..Len(text) |->
        IF text[i] \in Range(PrecomposedChars)
        THEN PrecomposedLower[PrecomposedIndex(text[i])]
        ELSE LowerChar(text[i])]

normalize_greek(text) ==
    IF text = <<>> THEN <<>>
    ELSE GreekLower(SelectSeq(NFD(text), LAMBDA c : ~IsMn(c)))

\* the number of characters of s before its first c (all of s if it has none)
RunBefore(s, c) ==
    IF \E i \in 1..Len(s) : s[i] = c
    THEN (CHOOSE i \in 1..Len(s) : s[i] = c /\ \A j \in 1..(i - 1) : s[j] # c) - 1
    ELSE Len(s)

RECURSIVE SubTagPair(_, _, _)
\* re.sub(r'<t>([^<]*)</t>', r'\1', s), open and close being <t> and </t>:
\* the group cannot hold "<", so it ends at the first "<" after the opening
\* tag, where the closing tag must stand
SubTagPair(s, open, close) ==
    IF s = <<>> THEN <<>>
    ELSE LET rest == SubSeq(s, Len(open) + 1, Len(s))
             n == RunBefore(rest, "<")
             after == SubSeq(rest, n + 1, Len(rest))
         IN  IF StartsWith(s, open) /\ StartsWith(after, close)
             THEN SubSeq(rest, 1, n)
                      \o SubTagPair(SubSeq(after, Len(close) + 1, Len(after)), open, close)
             ELSE <<Head(s)>> \o SubTagPair(Tail(s), open, close)

RECURSIVE RemoveTags(_)
\* re.sub(r'<[^>]+>', '', s): "<", at least one character that is not ">",
\* up to the first ">"
RemoveTags(s) ==
    IF s = <<>> THEN <<>>
    ELSE LET rest == Tail(s)
             n == RunBefore(rest, ">")
         IN  IF Head(s) = "<" /\ n >= 1 /\ n < Len(rest)
             THEN RemoveTags(SubSeq(rest, n + 2, Len(rest)))
             ELSE <<Head(s)>> \o RemoveTags(rest)

RECURSIVE PyReplace(_, _, _)
\* s.replace(old, new) for a non-empty old
PyReplace(s, old, new) ==
    IF s = <<>> THEN <<>>
    ELSE IF StartsWith(s, old)
         THEN new \o PyReplace(SubSeq(s, Len(old) + 1, Len(s)), old, new)
         ELSE <<Head(s)>> \o PyReplace(Tail(s), old, new)

clean_lsj_html(html_text) ==
    IF html_text = <<>> THEN <<>>
    ELSE LET t1 == SubTagPair(html_text, <<"<", "b", ">">>, <<"<", "/", "b", ">">>)
             t2 == SubTagPair(t1, <<"<", "i", ">">>, <<"<", "/", "i", ">">>)
             t3 == RemoveTags(t2)
             t4 == PyReplace(t3, <<"&", "n", "b", "s", "p", ";">>, <<" ">>)
             t5 == PyReplace(t4, <<"&", "a", "m", "p", ";">>, <<"&">>)
             t6 == PyReplace(t5, <<"&", "l", "t", ";">>, <<"<">>)
             t7 == PyReplace(t6, <<"&", "g", "t", ";">>, <<">">>)
         IN  PyStrip(CollapseSpaces(t7))

\* load_lsj_dictionary's normalized lookup: normalized key -> the first key
\* of the lexicon that has it
NormalizedKeys(lsj) ==
    LET first == SelectSeq([i \in 1..Len(lsj) |-> i],
                     LAMBDA i : \A j \in 1..(i - 1) :
                         normalize_greek(lsj[j][1]) # normalize_greek(lsj[i][1]))
    IN  [k \in 1..Len(first) |-> <<normalize_greek(lsj[first[k]][1]), lsj[first[k]][1]>>]

\* load_lsj_dictionary: the globals after the call, which are the pair it returns
load_lsj_dictionary(globals, file) ==
    IF globals.lsj_dict # None THEN globals
    ELSE IF file = Missing THEN [lsj_dict |-> <<>>, lsj_normalized |-> <<>>]
    ELSE [lsj_dict |-> file, lsj_normalized |-> NormalizedKeys(file)]

\* the lookup that tries the normalized match before the other two
lookup_lsj_NormalizedFirst(lsj, lsj_norm, lemma) ==
    LET lower_lemma == GreekLower(lemma)
        lowered == {i \in 1..Len(lsj) : GreekLower(lsj[i][1]) = lower_lemma}
        norm_lemma == normalize_greek(lemma)
    IN  IF lemma = <<>> \/ lsj = <<>> THEN <<>>
        ELSE IF DictHas(lsj_norm, norm_lemma)
             THEN clean_lsj_html(Get(DictGet(lsj, DictGet(lsj_norm, norm_lemma)), "d", <<>>))
        ELSE IF DictHas(lsj, lemma)
             THEN clean_lsj_html(Get(DictGet(lsj, lemma), "d", <<>>))
        ELSE IF lowered # {}
             THEN clean_lsj_html(
                      Get(lsj[CHOOSE i \in lowered : \A j \in lowered : i <= j][2], "d", <<>>))
        ELSE <<>>

\* lookup_lsj on the loaded tables
lookup_lsj(lsj, lsj_norm, lemma) ==
    LET lower_lemma == GreekLower(lemma)
        lowered == {i \in 1..Len(lsj) : GreekLower(lsj[i][1]) = lower_lemma}
        norm_lemma == normalize_greek(lemma)
    IN  IF lemma = <<>> \/ lsj = <<>> THEN <<>>
        ELSE IF DictHas(lsj, lemma)
             THEN clean_lsj_html(Get(DictGet(lsj, lemma), "d", <<>>))
        ELSE IF lowered # {}
             THEN clean_lsj_html(
                      Get(lsj[CHOOSE i \in lowered : \A j \in lowered : i <= j][2], "d", <<>>))
        ELSE IF DictHas(lsj_norm, norm_lemma)
             THEN clean_lsj_html(Get(DictGet(lsj, DictGet(lsj_norm, norm_lemma)), "d", <<>>))
        ELSE <<>>

\* load_strongs_dictionary raises FileNotFoundError: nothing loaded, no file
StrongsFileMissing(loaded, file) == loaded = None /\ file = Missing

\* load_strongs_dictionary when it raises nothing: the table, which is also
\* the global after the call
load_strongs_dictionary(loaded, file) == IF loaded # None THEN loaded ELSE file

RECURSIVE Flatten(_)
\* the concatenation of a sequence of sequences
Flatten(seqs) == IF seqs = <<>> THEN <<>> ELSE Head(seqs) \o Flatten(Tail(seqs))

\* the words the two loops of collect_strongs_from_greek_data visit
PassageWords(data) ==
    LET chapters == Get(data, "chapters", <<>>)
        verse_list ==
            IF Get(data, "type", "") = "book"
            THEN Flatten([c \in 1..Len(chapters) |-> Get(chapters[c], "verses", <<>>)])
            ELSE Get(data, "verses", <<>>)
    IN  Flatten([v \in 1..Len(verse_list) |-> Get(verse_list[v], "words", <<>>)])

\* the set strongs_numbers
StrongsNumbers(data) ==
    LET words == PassageWords(data)
    IN  {words[i].strongs : i \in {j \in 1..Len(words) : "strongs" \in DOMAIN words[j]}}

\* the sort key int(x[1:])
NumberKey(num) == PyInt(Tail(num))

\* whether a precedes b as Python orders strings built of "G" and digits
TextBefore(a, b) ==
    \E k \in 1..(Len(a) + 1) :
        /\ k <= Len(b)
        /\ SubSeq(a, 1, k - 1) = SubSeq(b, 1, k - 1)
        /\ \/ k = Len(a) + 1
           \/ (k <= Len(a) /\ a[k] # b[k]
               /\ (IF IsDigit(a[k]) /\ IsDigit(b[k]) THEN DigitVal(a[k]) < DigitVal(b[k])
                   ELSE IsDigit(a[k])))

RECURSIVE SortedByNumber_AsText(_)
\* sorted(nums): the identifiers in string order
SortedByNumber_AsText(nums) ==
    IF nums = {} THEN <<>>
    ELSE LET least == CHOOSE x \in nums : \A y \in nums : x = y \/ TextBefore(x, y)
         IN  <<least>> \o SortedByNumber_AsText(nums \ {least})

RECURSIVE SortedByNumber(_)
\* sorted(nums, key=lambda x: int(x[1:])): normalized identifiers have
\* distinct keys
SortedByNumber(nums) ==
    IF nums = {} THEN <<>>
    ELSE LET least == CHOOSE x \in nums : \A y \in nums : NumberKey(x) <= NumberKey(y)
         IN  <<least>> \o SortedByNumber(nums \ {least})

\* the entry of an identifier the dictionary does not know
BlankEntry(num) ==
    [strongs |-> num, lemma |-> <<>>, translit |-> <<>>, definition |-> <<>>,
     lsj_definition |-> <<>>, kjv_def |-> <<>>, derivation |-> <<>>]

\* whether the loop calls lookup_lsj for num
NeedsLsj(dictionary, num) ==
    LET entry == DictGetOr(dictionary, num, <<>>)
    IN  DOMAIN entry # {} /\ Get(entry, "lemma", <<>>) # <<>>

\* one iteration of the loop over the sorted identifiers
LexiconEntry(num, dictionary, lsj_globals, lsj) ==
    LET entry == DictGetOr(dictionary, num, <<>>)
        lemma == Get(entry, "lemma", <<>>)
        tables == load_lsj_dictionary(lsj_globals, lsj)
    IN  IF DOMAIN entry # {}
        THEN [strongs |-> num,
              lemma |-> lemma,
              translit |-> Get(entry, "translit", <<>>),
              definition |-> PyStrip(Get(entry, "strongs_def", <<>>)),
              lsj_definition |->
                  IF lemma # <<>>
                  THEN lookup_lsj(tables.lsj_dict, tables.lsj_normalized, lemma)
                  ELSE <<>>,
              kjv_def |-> Get(entry, "kjv_def", <<>>),
              derivation |-> Get(entry, "derivation", <<>>)]
        ELSE BlankEntry(num)

\* the loop that leaves out the identifiers the dictionary does not know
CollectEntries_KnownOnly(data, dictionary, lsj_globals, lsj) ==
    LET nums == SelectSeq(SortedByNumber(StrongsNumbers(data)),
                          LAMBDA num : DictHas(dictionary, num))
    IN  [i \in 1..Len(nums) |->
            <<nums[i], LexiconEntry(nums[i], dictionary, lsj_globals, lsj)>>]

\* the dict entries, in insertion order
CollectEntries(data, dictionary, lsj_globals, lsj) ==
    LET nums == SortedByNumber(StrongsNumbers(data))
    IN  [i \in 1..Len(nums) |->
            <<nums[i], LexiconEntry(nums[i], dictionary, lsj_globals, lsj)>>]

\* collect_strongs_from_greek_data: what it returns or raises, and the
\* globals it leaves
collect_strongs_from_greek_data(data, globals, files) ==
    LET dictionary == load_strongs_dictionary(globals.strongs_dict, files.strongs)
        lsj_globals == [lsj_dict |-> globals.lsj_dict,
                        lsj_normalized |-> globals.lsj_normalized]
        lsj_after == IF \E num \in StrongsNumbers(data) : NeedsLsj(dictionary, num)
                     THEN load_lsj_dictionary(lsj_globals, files.lsj)
                     ELSE lsj_globals
    IN  IF StrongsFileMissing(globals.strongs_dict, files.strongs)
        THEN [result |-> [raised |-> "FileNotFoundError"],
              strongs_dict |-> globals.strongs_dict,
              lsj_dict |-> globals.lsj_dict,
              lsj_normalized |-> globals.lsj_normalized]
        ELSE [result |-> [returned |->
                             CollectEntries(data, dictionary, lsj_globals, files.lsj)],
              strongs_dict |-> dictionary,
              lsj_dict |-> lsj_after.lsj_dict,
              lsj_normalized |-> lsj_after.lsj_normalized]

\* lookup_strongs: the entry of the identifier, {} for an unknown one, or the
\* error of load_strongs_dictionary
lookup_strongs(strongs_num, loaded, file) ==
    IF StrongsFileMissing(loaded, file) THEN [raised |-> "FileNotFoundError"]
    ELSE [returned |-> DictGetOr(load_strongs_dictionary(loaded, file), strongs_num, <<>>)]

\* format_appendix_entries: the entries in the order of sorted(entries.keys(),
\* key=lambda x: int(x[1:]))
format_appendix_entries(entries) ==
    LET nums == SortedByNumber({entries[i][1] : i \in 1..Len(entries)})
    IN  [i \in 1..Len(nums) |-> DictGet(entries, nums[i])]

(***************************************************************************)
(* Lexical cross-reference resolver: inputs and specification.  The words  *)
(* of a passage carry one of the identifiers of LexIdentifiers or none;    *)
(* the dictionary knows each identifier fully, without a lemma, as an      *)
(* empty entry, or not at all.                                             *)
(***************************************************************************)
MaxLexWords == 3

LexIdentifiers == <<<<"G", "9", "7", "6">>, <<"G", "3", "0", "5", "6">>, <<"G", "1", "2">>>>

LexLemmas == <<<<"b", "i'", "b">>, <<"l", "o'", "g">>, <<"A", "b">>>>

\* word kind 0 has no identifier, kind k the k-th identifier
LexWord(k) ==
    IF k = 0 THEN Word_o
    ELSE [greek |-> <<"w">> \o PyStr(k), gloss |-> <<"g">> \o PyStr(k),
          strongs |-> LexIdentifiers[k]]

\* the verses of a chapter holding the words of the given kinds: the first
\* half in verse 1, the rest in verse 2, a verse without words not existing
LexVerses(kinds) ==
    LET half == (Len(kinds) + 1) \div 2
        v1 == [i \in 1..half |-> LexWord(kinds[i])]
        v2 == [i \in 1..(Len(kinds) - half) |-> LexWord(kinds[half + i])]
    IN  (IF v1 = <<>> THEN <<>> ELSE <<[verse |-> 1, words |-> v1]>>)
            \o (IF v2 = <<>> THEN <<>> ELSE <<[verse |-> 2, words |-> v2]>>)

\* a passage of the given shape with the words of the given kinds; a book
\* has the first word in chapter 1 and the others in chapter 2
LexPassage(type, kinds) ==
    IF type = "book"
    THEN [type |-> "book", book |-> BOOK_NUMBERS[40],
          chapters |->
              (IF kinds = <<>> THEN <<>>
               ELSE <<[chapter |-> 1, verses |-> LexVerses(<<Head(kinds)>>)]>>)
              \o (IF Len(kinds) <= 1 THEN <<>>
                  ELSE <<[chapter |-> 2, verses |-> LexVerses(Tail(kinds))]>>)]
    ELSE [type |-> type, book |-> BOOK_NUMBERS[40], chapter |-> 1,
          verses |-> LexVerses(kinds)]

DictionaryKinds == {"absent", "empty", "bare", "full"}

\* the dictionary entry of the k-th identifier
DictionaryEntry(k, kind) ==
    IF kind = "full"
    THEN [lemma |-> LexLemmas[k], translit |-> <<"t">> \o PyStr(k),
          strongs_def |-> <<" ", "d">> \o PyStr(k) \o <<" ">>,
          kjv_def |-> <<"k">> \o PyStr(k), derivation |-> <<"f">> \o PyStr(k)]
    ELSE IF kind = "bare" THEN [translit |-> <<"t">> \o PyStr(k)]
    ELSE <<>>

\* strongs-greek.json: the identifiers in file order, the absent ones left out
StrongsTable(kinds) ==
    LET present == SelectSeq([k \in 1..Len(kinds) |-> k], LAMBDA k : kinds[k] # "absent")
    IN  [i \in 1..Len(present) |->
            <<LexIdentifiers[present[i]], DictionaryEntry(present[i], kinds[present[i]])>>]

\* lsj.json: a lexicon keyed by the lemmas as written, and one keyed by
\* other spellings of them (upper case, decomposed accent)
LsjExact ==
    <<<<LexLemmas[1], [d |-> <<"<", "b", ">", "b", "i'", "b", "<", "/", "b", ">", " ", " ", "p">>]>>,
      <<LexLemmas[2], [d |-> <<"l", "&", "a", "m", "p", ";", "g">>]>>>>

LsjFolded ==
    <<<<<<"B", "I'", "B">>, [d |-> <<"<", "i", ">", "B", "<", "/", "i", ">">>]>>,
      <<<<"l", "o", "'", "g">>, [d |-> <<"<", "p", ">", "w", " ">>]>>,
      <<<<"a", "b">>, <<>>>>>>

LsjFiles == {Missing, LsjExact, LsjFolded}

\* the other components at rest
LexOthersIdle ==
    /\ ref = <<>> /\ ref_src = <<>> /\ parsed = <<>>
    /\ df = <<>> /\ req = <<>> /\ tree = <<>>
    /\ passage_text = <<>> /\ text_src = <<>> /\ parsed_verses = <<>>
    /\ greek_data = <<>> /\ esv_data = <<>> /\ net_data = <<>> /\ kjv_data = <<>>
    /\ merged = <<>>
    /\ cell_text = <<>> /\ cell_src = <<>> /\ decoded = <<>> /\ redecoded = <<>>
    /\ RenderIdle
    /\ FetchIdle

\* the module just imported: no table loaded, nothing called yet
LexStart(calls) ==
    /\ pc = "lex_ready"
    /\ strongs_dict = None /\ lsj_dict = None /\ lsj_normalized = None
    /\ lex_entries = <<>> /\ lex_call = <<>> /\ lex_result = <<>> /\ appendix = <<>>
    /\ strongs_reads = 0 /\ lsj_reads = 0
    /\ calls_left = calls
    /\ LexOthersIdle

InitLex ==
    /\ \E type \in {"book", "chapter", "verse_range"}, n \in 0..MaxLexWords :
           \E kinds \in [1..n -> 0..Len(LexIdentifiers)] :
               lex_passage = LexPassage(type, kinds)
    /\ \/ strongs_file = Missing
       \/ \E kinds \in [1..Len(LexIdentifiers) -> DictionaryKinds] :
              strongs_file = StrongsTable(kinds)
    /\ lsj_file \in LsjFiles
    /\ LexStart(1)

\* the positions of the process at which it can make its next call
LexCallable == {"lex_ready", "lex_done", "strongs_done", "lsj_done", "appendix_done"}

\* a load that reads the file whether or not the table is in memory
Reads_NoCache(loaded, file) == IF file # Missing THEN 1 ELSE 0

\* json.load of a data file happens when the global is None and the file exists
Reads(loaded, file) == IF loaded = None /\ file # Missing THEN 1 ELSE 0

\* one call of collect_strongs_from_greek_data
CollectStrongs ==
    /\ pc \in LexCallable /\ calls_left > 0
    /\ LET call == collect_strongs_from_greek_data(
                       lex_passage,
                       [strongs_dict |-> strongs_dict, lsj_dict |-> lsj_dict,
                        lsj_normalized |-> lsj_normalized],
                       [strongs |-> strongs_file, lsj |-> lsj_file])
       IN  /\ lex_entries' = call.result
           /\ strongs_dict' = call.strongs_dict
           /\ lsj_dict' = call.lsj_dict
           /\ lsj_normalized' = call.lsj_normalized
           /\ strongs_reads' = strongs_reads + Reads(strongs_dict, strongs_file)
           /\ lsj_reads' = lsj_reads
                  + (IF lsj_dict = None /\ call.lsj_dict # None
                     THEN Reads(lsj_dict, lsj_file) ELSE 0)
    /\ lex_call' = [op |-> "collect_strongs_from_greek_data", arg |-> <<>>]
    /\ pc' = "lex_done"
    /\ calls_left' = calls_left - 1
    /\ UNCHANGED <<strongs_file, lsj_file, lex_passage, lex_result, appendix,
                   refVars, aggVars, esvVars, mergeVars, decVars, renderVars, fetchVars>>

\* format_appendix_entries on the entries just collected
FormatAppendix ==
    /\ pc = "lex_done"
    /\ "returned" \in DOMAIN lex_entries
    /\ appendix' = format_appendix_entries(lex_entries.returned)
    /\ pc' = "appendix_done"
    /\ UNCHANGED <<strongs_file, lsj_file, strongs_dict, lsj_dict, lsj_normalized,
                   lex_passage, lex_entries, lex_call, lex_result, strongs_reads,
                   lsj_reads, calls_left,
                   refVars, aggVars, esvVars, mergeVars, decVars, renderVars, fetchVars>>

\* the lemmas lookup_lsj is called with: the spellings of the lexicon keys,
\* the lemmas of the dictionary, an unknown word and the empty string
LsjForms ==
    <<<<"l", "o'", "g">>, <<"L", "O'", "G">>, <<"l", "o", "g">>,
      <<"l", "o", "'", "g">>, <<"L", "o'", "g">>, <<"a", "b">>>>

LookupLemmas == Range(LsjForms) \cup Range(LexLemmas) \cup {<<"x">>, <<>>}

\* one call of lookup_lsj
LookupLsj ==
    /\ pc \in LexCallable /\ calls_left > 0
    /\ \E lemma \in LookupLemmas :
           LET tables == load_lsj_dictionary(
                             [lsj_dict |-> lsj_dict, lsj_normalized |-> lsj_normalized],
                             lsj_file)
           IN  /\ lex_result' = [returned |->
                                    lookup_lsj(tables.lsj_dict, tables.lsj_normalized, lemma)]
               /\ lsj_dict' = tables.lsj_dict
               /\ lsj_normalized' = tables.lsj_normalized
               /\ lex_call' = [op |-> "lookup_lsj", arg |-> lemma]
    /\ lsj_reads' = lsj_reads + Reads(lsj_dict, lsj_file)
    /\ pc' = "lsj_done"
    /\ calls_left' = calls_left - 1
    /\ UNCHANGED <<strongs_file, lsj_file, strongs_dict, lex_passage, lex_entries,
                   appendix, strongs_reads,
                   refVars, aggVars, esvVars, mergeVars, decVars, renderVars, fetchVars>>

\* the identifiers lookup_strongs is called with
LookupNumbers == Range(LexIdentifiers) \cup {<<"G", "1">>}

\* one call of lookup_strongs
LookupStrongs ==
    /\ pc \in LexCallable /\ calls_left > 0
    /\ \E num \in LookupNumbers :
           /\ lex_result' = lookup_strongs(num, strongs_dict, strongs_file)
           /\ lex_call' = [op |-> "lookup_strongs", arg |-> num]
    /\ strongs_dict' = IF StrongsFileMissing(strongs_dict, strongs_file)
                       THEN strongs_dict
                       ELSE load_strongs_dictionary(strongs_dict, strongs_file)
    /\ strongs_reads' = strongs_reads + Reads(strongs_dict, strongs_file)
    /\ pc' = "strongs_done"
    /\ calls_left' = calls_left - 1
    /\ UNCHANGED <<strongs_file, lsj_file, lsj_dict, lsj_normalized, lex_passage,
                   lex_entries, appendix, lsj_reads,
                   refVars, aggVars, esvVars, mergeVars, decVars, renderVars, fetchVars>>

NextLex == CollectStrongs \/ FormatAppendix

SpecLex == InitLex /\ [][NextLex]_vars

(***************************************************************************)
(* lookup_lsj on its own: a lexicon of up to MaxLsjKeys keys, each a       *)
(* spelling of one word (or another word), in any file order.              *)
(***************************************************************************)
MaxLsjKeys == 3

\* the lexicon entry under the f-th spelling: its definition names the
\* spelling; the last spelling has an entry without 'd'
LsjEntry(f) ==
    IF f = Len(LsjForms) THEN <<>>
    ELSE [d |-> <<"<", "b", ">", "d">> \o PyStr(f) \o <<"<", "/", "b", ">", " ">>]

\* the lexicon with the given spellings as keys, in this order
LsjTable(forms) == [i \in 1..Len(forms) |-> <<LsjForms[forms[i]], LsjEntry(forms[i])>>]

\* JSON object keys are distinct
Injective(f) == \A i, j \in DOMAIN f : f[i] = f[j] => i = j

InitLsj ==
    /\ \/ lsj_file = Missing
       \/ \E n \in 0..MaxLsjKeys : \E forms \in [1..n -> 1..Len(LsjForms)] :
              /\ Injective(forms)
              /\ lsj_file = LsjTable(forms)
    /\ strongs_file = Missing
    /\ lex_passage = LexPassage("chapter", <<>>)
    /\ LexStart(1)

NextLsj == LookupLsj

SpecLsj == InitLsj /\ [][NextLsj]_vars

(***************************************************************************)
(* The lexicon module over one process: up to MaxLexCalls calls of its     *)
(* three entry points in any order.                                        *)
(***************************************************************************)
MaxLexCalls == 3

ProcPassages ==
    {LexPassage(type, kinds) : type \in {"book", "chapter"},
                               kinds \in {<<>>, <<0>>, <<2>>, <<3, 0, 1>>}}

ProcDictionaries ==
    {Missing, StrongsTable(<<"full", "full", "full">>),
     StrongsTable(<<"absent", "empty", "full">>), StrongsTable(<<"bare", "absent", "absent">>)}

InitProc ==
    /\ lex_passage \in ProcPassages
    /\ strongs_file \in ProcDictionaries
    /\ lsj_file \in LsjFiles
    /\ \E calls \in 1..MaxLexCalls : LexStart(calls)

NextProc == CollectStrongs \/ FormatAppendix \/ LookupStrongs \/ LookupLsj

SpecProc == InitProc /\ [][NextProc]_vars

(***************************************************************************)
(* render_document: the merge followed by the escaping of the merged       *)
(* records (generate_latex.py).  merge_verse_data puts the word list of    *)
(* each Greek verse itself into the merged verse, merge_book_data builds   *)
(* new word dicts; the escape functions assign to the dicts they are       *)
(* handed.                                                                 *)
(***************************************************************************)
\* LATEX_SPECIAL in the order of its items
LATEX_SPECIAL ==
    <<<<"&", <<"\\", "&">>>>, <<"%", <<"\\", "%">>>>, <<"$", <<"\\", "$">>>>,
      <<"#", <<"\\", "#">>>>, <<"_", <<"\\", "_">>>>, <<"{", <<"\\", "{">>>>,
      <<"}", <<"\\", "}">>>>,
      <<"~", <<"\\", "t", "e", "x", "t", "a", "s", "c", "i", "i",
               "t", "i", "l", "d", "e", "{", "}">>>>,
      <<"^", <<"\\", "t", "e", "x", "t", "a", "s", "c", "i", "i",
               "c", "i", "r", "c", "u", "m", "{", "}">>>>>>

RECURSIVE ReplaceSpecials(_, _)
\* the loop over LATEX_SPECIAL.items() from the i-th item on
ReplaceSpecials(text, i) ==
    IF i > Len(LATEX_SPECIAL) THEN text
    ELSE ReplaceSpecials(PyReplace(text, <<LATEX_SPECIAL[i][1]>>, LATEX_SPECIAL[i][2]), i + 1)

escape_latex(text) ==
    IF text = <<>> THEN <<>>
    ELSE ReplaceSpecials(
             PyReplace(text, <<"\\">>,
                       <<"\\", "t", "e", "x", "t", "b", "a", "c", "k",
                         "s", "l", "a", "s", "h", "{", "}">>), 1)

\* the word dict after word["gloss"] = escape_latex(word["gloss"])
EscapeWord(word) == [word EXCEPT !.gloss = escape_latex(word.gloss)]

\* the verse dicts after the loop body of escape_verse_data
escape_verse_data(verse_list) ==
    [i \in 1..Len(verse_list) |->
        [number |-> verse_list[i].number,
         esv_text |-> escape_latex(verse_list[i].esv_text),
         heading |-> escape_latex(Get(verse_list[i], "heading", <<>>)),
         greek_words |-> [j \in 1..Len(verse_list[i].greek_words) |->
                             EscapeWord(verse_list[i].greek_words[j])]]]

escape_chapter_data(chapters) ==
    [c \in 1..Len(chapters) |->
        [number |-> chapters[c].number, verses |-> escape_verse_data(chapters[c].verses)]]

\* the Greek verses whose word lists are the lists of the merged verses,
\* after the words of those lists were assigned to
WithWordsOf(greek_verses, merged_verses) ==
    [i \in 1..Len(greek_verses) |->
        IF "words" \in DOMAIN greek_verses[i]
        THEN [greek_verses[i] EXCEPT !.words = merged_verses[i].greek_words]
        ELSE greek_verses[i]]

MaxRenderWords == 3

\* glosses without and with characters of LATEX_SPECIAL
RenderGlosses == <<<<"i", "n">>, <<"a", "_", "b">>, <<"x", "&">>>>

RenderWord(k) ==
    IF k = 1 THEN [greek |-> <<"e", "n">>, gloss |-> RenderGlosses[k],
                   strongs |-> <<"G", "1", "7", "2", "2">>]
    ELSE [greek |-> <<"w">> \o PyStr(k), gloss |-> RenderGlosses[k]]

\* the verses of a chapter with the words of the given kinds: the first half
\* in verse 1, the rest in verse 2
RenderVerses(kinds) ==
    LET half == (Len(kinds) + 1) \div 2
        v1 == [i \in 1..half |-> RenderWord(kinds[i])]
        v2 == [i \in 1..(Len(kinds) - half) |-> RenderWord(kinds[half + i])]
    IN  (IF v1 = <<>> THEN <<>> ELSE <<[verse |-> 1, words |-> v1]>>)
            \o (IF v2 = <<>> THEN <<>> ELSE <<[verse |-> 2, words |-> v2]>>)

RenderPassage(type, kinds) ==
    IF type = "book"
    THEN [type |-> "book", book |-> BOOK_NUMBERS[40],
          chapters |-> IF kinds = <<>> THEN <<>>
                       ELSE <<[chapter |-> 1, verses |-> RenderVerses(kinds)]>>]
    ELSE [type |-> type, book |-> BOOK_NUMBERS[40], chapter |-> 1,
          verses |-> RenderVerses(kinds)]

\* the ESV passage of the same shape: no verse, or verse 1 with a text and a
\* heading that hold characters of LATEX_SPECIAL
RenderTranslation(type, cover) ==
    LET verse_list == IF cover = "none" THEN <<>>
                      ELSE <<[verse |-> 1, text |-> <<"5", "%">>, heading |-> <<"A", "#">>]>>
    IN  IF type = "book"
        THEN [type |-> "book", chapters |-> <<[chapter |-> 1, verses |-> verse_list]>>]
        ELSE [type |-> type, verses |-> verse_list]

InitRender ==
    /\ pc = "render_ready"
    /\ \E type \in {"book", "chapter", "verse_range"}, n \in 0..MaxRenderWords,
          cover \in {"none", "text"} :
           \E kinds \in [1..n -> 1..Len(RenderGlosses)] :
               /\ greek_data = RenderPassage(type, kinds)
               /\ esv_data = RenderTranslation(type, cover)
    /\ greek_before = greek_data
    /\ net_data = <<>> /\ kjv_data = <<>> /\ merged = <<>>
    /\ words_shared = FALSE
    /\ ref = <<>> /\ ref_src = <<>> /\ parsed = <<>>
    /\ df = <<>> /\ req = <<>> /\ tree = <<>>
    /\ passage_text = <<>> /\ text_src = <<>> /\ parsed_verses = <<>>
    /\ cell_text = <<>> /\ cell_src = <<>> /\ decoded = <<>> /\ redecoded = <<>>
    /\ LexIdle
    /\ FetchIdle

\* render_document and render_book: the merge
RenderMerge ==
    /\ pc = "render_ready"
    /\ IF Get(greek_data, "type", "") = "book"
       THEN /\ merged' = merge_book_data(greek_data, esv_data)
            /\ words_shared' = FALSE
       ELSE /\ merged' = merge_verse_data(Get(greek_data, "verses", <<>>),
                                          Get(esv_data, "verses", <<>>))
            /\ words_shared' = TRUE
    /\ pc' = "render_merged"
    /\ UNCHANGED <<greek_data, esv_data, net_data, kjv_data, greek_before,
                   refVars, aggVars, esvVars, decVars, lexVars, fetchVars>>

\* render_document and render_book: the escaping of the merged records, which
\* assigns to the word dicts of the Greek tree where the lists are shared
RenderEscape ==
    /\ pc = "render_merged"
    /\ merged' = IF Get(greek_data, "type", "") = "book"
                 THEN escape_chapter_data(merged)
                 ELSE escape_verse_data(merged)
    /\ greek_data' = IF words_shared
                     THEN [greek_data EXCEPT !.verses = WithWordsOf(@, merged')]
                     ELSE greek_data
    /\ pc' = "render_escaped"
    /\ UNCHANGED <<esv_data, net_data, kjv_data, greek_before, words_shared,
                   refVars, aggVars, esvVars, decVars, lexVars, fetchVars>>

NextRender == RenderMerge \/ RenderEscape

SpecRender == InitRender /\ [][NextRender]_vars

(***************************************************************************)
(* Translation fetchers (fetch_esv.py, fetch_net.py, fetch_bibleapi.py).   *)
(* A response of the service is a record of its status code and of the     *)
(* value its body decodes to; within one call of a fetcher the service     *)
(* gives the same response to every request.                               *)
(***************************************************************************)
\* BOOK_CHAPTERS, in the order of the dict: the same in the three modules
BOOK_CHAPTERS ==
    <<
       <<<<"M", "a", "t", "t", "h", "e", "w">>, 28>>,
       <<<<"M", "a", "r", "k">>, 16>>,
       <<<<"L", "u", "k", "e">>, 24>>,
       <<<<"J", "o", "h", "n">>, 21>>,
       <<<<"A", "c", "t", "s">>, 28>>,
       <<<<"R", "o", "m", "a", "n", "s">>, 16>>,
       <<<<"1", " ", "C", "o", "r", "i", "n", "t", "h", "i", "a", "n", "s">>, 16>>,
       <<<<"2", " ", "C", "o", "r", "i", "n", "t", "h", "i", "a", "n", "s">>, 13>>,
       <<<<"G", "a", "l", "a", "t", "i", "a", "n", "s">>, 6>>,
       <<<<"E", "p", "h", "e", "s", "i", "a", "n", "s">>, 6>>,
       <<<<"P", "h", "i", "l", "i", "p", "p", "i", "a", "n", "s">>, 4>>,
       <<<<"C", "o", "l", "o", "s", "s", "i", "a", "n", "s">>, 4>>,
       <<<<"1", " ", "T", "h", "e", "s", "s", "a", "l", "o", "n", "i", "a", "n", "s">>, 5>>,
       <<<<"2", " ", "T", "h", "e", "s", "s", "a", "l", "o", "n", "i", "a", "n", "s">>, 3>>,
       <<<<"1", " ", "T", "i", "m", "o", "t", "h", "y">>, 6>>,
       <<<<"2", " ", "T", "i", "m", "o", "t", "h", "y">>, 4>>,
       <<<<"T", "i", "t", "u", "s">>, 3>>,
       <<<<"P", "h", "i", "l", "e", "m", "o", "n">>, 1>>,
       <<<<"H", "e", "b", "r", "e", "w", "s">>, 13>>,
       <<<<"J", "a", "m", "e", "s">>, 5>>,
       <<<<"1", " ", "P", "e", "t", "e", "r">>, 5>>,
       <<<<"2", " ", "P", "e", "t", "e", "r">>, 3>>,
       <<<<"1", " ", "J", "o", "h", "n">>, 5>>,
       <<<<"2", " ", "J", "o", "h", "n">>, 1>>,
       <<<<"3", " ", "J", "o", "h", "n">>, 1>>,
       <<<<"J", "u", "d", "e">>, 1>>,
       <<<<"R", "e", "v", "e", "l", "a", "t", "i", "o", "n">>, 22>>
    >>

\* the book whose name the request spells, compared without case and then
\* without case and spaces; None when the loop ends without a break
BookNameOf(passage_ref) ==
    LET lowered == PyLower(passage_ref)
        hits == {i \in DOMAIN BOOK_CHAPTERS :
                    \/ lowered = PyLower(BOOK_CHAPTERS[i][1])
                    \/ PyRemoveSpaces(lowered) = PyRemoveSpaces(PyLower(BOOK_CHAPTERS[i][1]))}
    IN  IF hits = {} THEN None
        ELSE BOOK_CHAPTERS[CHOOSE i \in hits : \A j \in hits : i <= j][1]

\* BOOK_CHAPTERS[book_name]
ChaptersOf(book_name) ==
    BOOK_CHAPTERS[CHOOSE i \in DOMAIN BOOK_CHAPTERS : BOOK_CHAPTERS[i][1] = book_name][2]

HTTPError(resp) == [raised |-> "HTTPError", status |-> resp.status]

\* response.raise_for_status() raises
IsErrorStatus(resp) == resp.status >= 400

\* the loop over the items of a decoded body: an item with verse 0 or with
\* no text is left out
ItemVerses(items) ==
    LET cleaned == [i \in DOMAIN items |->
                       [verse |-> Get(items[i], "verse", 0),
                        text |-> CollapseSpaces(PyStrip(Get(items[i], "text", <<>>)))]]
    IN  SelectSeq(cleaned, LAMBDA v : v.verse # 0 /\ v.text # <<>>)

\* fetch_single_chapter
fetch_single_chapter(chapter, resp) ==
    IF IsErrorStatus(resp) THEN HTTPError(resp)
    ELSE IF Get(resp.json, "passages", <<>>) = <<>>
    THEN [chapter |-> chapter, verses |-> <<>>]
    ELSE [chapter |-> chapter,
          verses |-> parse_esv_verses_with_headings(resp.json.passages[1])]

\* fetch_net_chapter
fetch_net_chapter(chapter, resp) ==
    IF IsErrorStatus(resp) THEN HTTPError(resp)
    ELSE IF resp.json = <<>> THEN [chapter |-> chapter, verses |-> <<>>]
    ELSE [chapter |-> chapter, verses |-> ItemVerses(resp.json)]

\* what fetch_chapter does with the response it leaves its loop with (or
\* raises for, when every attempt was answered 429)
ChapterOfResponse(chapter, resp) ==
    IF IsErrorStatus(resp) THEN HTTPError(resp)
    ELSE IF "verses" \notin DOMAIN resp.json THEN [chapter |-> chapter, verses |-> <<>>]
    ELSE [chapter |-> chapter, verses |-> ItemVerses(resp.json.verses)]

\* the loop `for ch in range(1, BOOK_CHAPTERS[book_name] + 1)`: the error of
\* the first chapter ends the call
BookChapters(chapter_data) ==
    LET failed == {ch \in DOMAIN chapter_data : Raised(chapter_data[ch])}
    IN  IF failed # {} THEN chapter_data[CHOOSE ch \in failed : \A c \in failed : ch <= c]
        ELSE [returned |-> chapter_data]

YourApiKeyHere == <<"y", "o", "u", "r", "-", "a", "p", "i", "-", "k", "e", "y", "-", "h", "e", "r", "e">>

\* fetch_esv_passage, the key being given or configured
fetch_esv_passage(passage_ref0, api_key, resp) ==
    IF api_key = None \/ api_key = <<>> \/ api_key = YourApiKeyHere
    THEN [raised |-> "ValueError", prefix |-> "ESV API key not configured. ", arg |-> <<>>]
    ELSE LET passage_ref == PyStrip(passage_ref0)
             book_name == BookNameOf(passage_ref)
         IN  IF book_name # None
             THEN LET chapters == BookChapters([ch \in 1..ChaptersOf(book_name) |->
                                                   fetch_single_chapter(ch, resp)])
                  IN  IF Raised(chapters) THEN chapters
                      ELSE [passage |-> passage_ref, canonical |-> book_name,
                            type |-> "book", chapters |-> chapters.returned]
             ELSE IF IsErrorStatus(resp) THEN HTTPError(resp)
             ELSE IF Get(resp.json, "passages", <<>>) = <<>>
             THEN Raise("No passages returned for: ", passage_ref)
             ELSE [passage |-> passage_ref,
                   canonical |-> Get(resp.json, "canonical", passage_ref),
                   type |-> "verses",
                   verses |-> parse_esv_verses_with_headings(resp.json.passages[1])]

Chars_NET == <<"N", "E", "T">>

\* fetch_net_passage
fetch_net_passage(passage_ref0, resp) ==
    LET passage_ref == PyStrip(passage_ref0)
        book_name == BookNameOf(passage_ref)
    IN  IF book_name # None
        THEN LET chapters == BookChapters([ch \in 1..ChaptersOf(book_name) |->
                                                   fetch_net_chapter(ch, resp)])
             IN  IF Raised(chapters) THEN chapters
                 ELSE [passage |-> passage_ref, canonical |-> book_name, type |-> "book",
                       translation |-> Chars_NET, chapters |-> chapters.returned]
        ELSE IF IsErrorStatus(resp) THEN HTTPError(resp)
        ELSE IF resp.json = <<>> THEN Raise("No passages returned for: ", passage_ref)
        ELSE [passage |-> passage_ref, canonical |-> passage_ref, type |-> "verses",
              translation |-> Chars_NET, verses |-> ItemVerses(resp.json)]

\* AVAILABLE_TRANSLATIONS: the codes of the convenience functions
AVAILABLE_TRANSLATIONS ==
    << <<<<"w", "e", "b">>, "World English Bible">>,
       <<<<"a", "s", "v">>, "American Standard Version">>,
       <<<<"k", "j", "v">>, "King James Version">> >>

\* AVAILABLE_TRANSLATIONS.get(translation, translation.upper())
TranslationName(translation) ==
    LET at == {i \in DOMAIN AVAILABLE_TRANSLATIONS : AVAILABLE_TRANSLATIONS[i][1] = translation}
    IN  IF at = {} THEN [i \in DOMAIN translation |-> UpperChar(translation[i])]
        ELSE AVAILABLE_TRANSLATIONS[CHOOSE i \in at : TRUE][2]

\* fetch_passage
fetch_passage(passage_ref0, translation, resp) ==
    LET passage_ref == PyStrip(passage_ref0)
        trans_name == TranslationName(translation)
        book_name == BookNameOf(passage_ref)
    IN  IF book_name # None
        THEN LET chapters == BookChapters([ch \in 1..ChaptersOf(book_name) |->
                                                   ChapterOfResponse(ch, resp)])
             IN  IF Raised(chapters) THEN chapters
                 ELSE [passage |-> passage_ref, canonical |-> book_name, type |-> "book",
                       translation |-> trans_name, chapters |-> chapters.returned]
        ELSE IF IsErrorStatus(resp) THEN HTTPError(resp)
        ELSE IF "verses" \notin DOMAIN resp.json
        THEN Raise("No passages returned for: ", passage_ref)
        ELSE [passage |-> passage_ref,
              canonical |-> Get(resp.json, "reference", passage_ref),
              type |-> "verses", translation |-> trans_name,
              verses |-> ItemVerses(resp.json.verses)]

(***************************************************************************)
(* Calls of the fetchers: the reference is a key of BOOK_NAMES in some     *)
(* casing and spacing, alone or followed by a chapter number.              *)
(***************************************************************************)
\* the items of a decoded body: a verse, an item without number, one
\* without text
ServiceItems ==
    << [verse |-> 1, text |-> <<" ", "a", " ", " ", "b", "\n">>],
       [text |-> <<"c">>],
       [verse |-> 2, text |-> <<" ">>] >>

\* the passage text of the ESV service: a heading, verse 1
ServiceText == RenderItems(<<"H", "B", "M", "T">>, 1)

Chars_Ephesians_1 == <<"E", "p", "h", "e", "s", "i", "a", "n", "s", " ", "1">>

EsvResponses ==
    { [status |-> 200, json |-> [passages |-> <<ServiceText>>, canonical |-> Chars_Ephesians_1]],
      [status |-> 200, json |-> [passages |-> <<>>]],
      [status |-> 429, json |-> [detail |-> "throttled"]],
      [status |-> 404, json |-> [detail |-> "not found"]] }

NetResponses ==
    { [status |-> 200, json |-> ServiceItems],
      [status |-> 200, json |-> <<>>],
      [status |-> 500, json |-> <<>>] }

BibleApiResponses ==
    { [status |-> 200, json |-> [verses |-> ServiceItems, reference |-> Chars_Ephesians_1]],
      [status |-> 200, json |-> [verses |-> ServiceItems]],
      [status |-> 200, json |-> [error |-> "not found"]],
      [status |-> 429, json |-> [error |-> "rate limited"]],
      [status |-> 404, json |-> [error |-> "not found"]] }

ApiKeys == {None, YourApiKeyHere, <<"k">>}

FetchForms == {"book", "chapter"}

InitFetch ==
    /\ pc = "fetch_ready"
    /\ \E i \in DOMAIN BOOK_NAMES, how \in {"lower", "upper", "title"},
          form \in FetchForms, lead \in 0..MaxPad, trail \in 0..MaxPad :
          \E p \in 0..(Len(BOOK_NAMES[i][1]) - 1) :
              ref_src = RefSource(i, Respace(Recase(BOOK_NAMES[i][1], how), p), form,
                                  [c |-> <<"3">>, v1 |-> <<"2">>, v2 |-> <<"2">>, gap |-> 1],
                                  lead, trail)
    /\ ref = Compose(ref_src)
    /\ parsed = <<>>
    /\ df = <<>> /\ req = <<>> /\ tree = <<>>
    /\ passage_text = <<>> /\ text_src = <<>> /\ parsed_verses = <<>>
    /\ greek_data = <<>> /\ esv_data = <<>> /\ net_data = <<>> /\ kjv_data = <<>>
    /\ merged = <<>>
    /\ cell_text = <<>> /\ cell_src = <<>> /\ decoded = <<>> /\ redecoded = <<>>
    /\ LexIdle
    /\ RenderIdle
    /\ FetchIdle

\* generate.py: the Greek passage is extracted and the ESV passage fetched
\* for the same reference
FetchEsv ==
    /\ pc = "fetch_ready"
    /\ parsed' = parse_passage_reference(ref)
    /\ \E key \in ApiKeys, resp \in EsvResponses :
           /\ fetch_call' = [op |-> "fetch_esv_passage", api_key |-> key]
           /\ response' = resp
           /\ fetched' = fetch_esv_passage(ref, key, resp)
    /\ pc' = "fetch_done"
    /\ UNCHANGED <<ref, ref_src, retries, attempt, sent, slept,
                   aggVars, esvVars, mergeVars, decVars, lexVars, renderVars>>

FetchNet ==
    /\ pc = "fetch_ready"
    /\ parsed' = parse_passage_reference(ref)
    /\ \E resp \in NetResponses :
           /\ fetch_call' = [op |-> "fetch_net_passage"]
           /\ response' = resp
           /\ fetched' = fetch_net_passage(ref, resp)
    /\ pc' = "fetch_done"
    /\ UNCHANGED <<ref, ref_src, retries, attempt, sent, slept,
                   aggVars, esvVars, mergeVars, decVars, lexVars, renderVars>>

\* fetch_kjv_passage
FetchKjv ==
    /\ pc = "fetch_ready"
    /\ parsed' = parse_passage_reference(ref)
    /\ \E resp \in BibleApiResponses :
           /\ fetch_call' = [op |-> "fetch_passage", translation |-> <<"k", "j", "v">>]
           /\ response' = resp
           /\ fetched' = fetch_passage(ref, <<"k", "j", "v">>, resp)
    /\ pc' = "fetch_done"
    /\ UNCHANGED <<ref, ref_src, retries, attempt, sent, slept,
                   aggVars, esvVars, mergeVars, decVars, lexVars, renderVars>>

NextFetch == FetchEsv \/ FetchNet \/ FetchKjv

SpecFetch == InitFetch /\ [][NextFetch]_vars

(***************************************************************************)
(* fetch_chapter (fetch_bibleapi.py): the retry loop, one request or one   *)
(* wait per step.  `attempt` is the value the loop takes next; `sent` and  *)
(* `slept` record the requests and the waits of the call.                  *)
(***************************************************************************)
BIBLE_API_URL == <<"h", "t", "t", "p", "s", ":", "/", "/", "b", "i", "b", "l", "e", "-", "a", "p", "i", ".", "c", "o", "m", "/">>

\* f"{BIBLE_API_URL}{passage_ref.replace(' ', '+')}?translation={translation}"
ChapterUrl(book, chapter, translation) ==
    BIBLE_API_URL \o PyReplace(book \o <<" ">> \o PyStr(chapter), <<" ">>, <<"+">>)
        \o <<"?", "t", "r", "a", "n", "s", "l", "a", "t", "i", "o", "n", "=">> \o translation

\* range(n) with no further value after k - 1
InRange_Inclusive(k, n) == k <= n

\* `for attempt in range(retries)` has the value k
InRange(k, n) == k < n

\* wait_time = 5 * (attempt + 1)
wait_time(k) == 5 * (k + 1)

Milliseconds(seconds) == 1000 * seconds

\* time.sleep(0.5)
PauseAfterRequest == 500

MaxRetries == 3

RetryBooks == {<<"E", "p", "h", "e", "s", "i", "a", "n", "s">>, <<"1", " ", "J", "o", "h", "n">>}
RetryChapters == {1, 2}
RetryTranslations == {<<"w", "e", "b">>, <<"k", "j", "v">>}

InitRetry ==
    /\ pc = "fc_loop"
    /\ \E book \in RetryBooks, chapter \in RetryChapters, translation \in RetryTranslations :
           fetch_call = [op |-> "fetch_chapter", book |-> book, chapter |-> chapter,
                         translation |-> translation]
    /\ retries \in 0..MaxRetries
    /\ attempt = 0
    /\ response = <<>> /\ fetched = <<>> /\ sent = <<>> /\ slept = <<>>
    /\ ref = <<>> /\ ref_src = <<>> /\ parsed = <<>>
    /\ df = <<>> /\ req = <<>> /\ tree = <<>>
    /\ passage_text = <<>> /\ text_src = <<>> /\ parsed_verses = <<>>
    /\ greek_data = <<>> /\ esv_data = <<>> /\ net_data = <<>> /\ kjv_data = <<>>
    /\ merged = <<>>
    /\ cell_text = <<>> /\ cell_src = <<>> /\ decoded = <<>> /\ redecoded = <<>>
    /\ LexIdle
    /\ RenderIdle

\* response = requests.get(url), then the test of the status code: 429 goes
\* on to the wait, another error status raises, any other status breaks
Request ==
    /\ pc = "fc_loop"
    /\ InRange(attempt, retries)
    /\ \E resp \in BibleApiResponses :
           /\ response' = resp
           /\ sent' = Append(sent, [url |-> ChapterUrl(fetch_call.book, fetch_call.chapter,
                                                       fetch_call.translation),
                                    status |-> resp.status])
           /\ IF resp.status = 429
              THEN pc' = "fc_rate_limited" /\ fetched' = fetched
              ELSE IF IsErrorStatus(resp)
              THEN pc' = "fc_raised" /\ fetched' = HTTPError(resp)
              ELSE pc' = "fc_break" /\ fetched' = fetched
    /\ UNCHANGED <<fetch_call, retries, attempt, slept,
                   refVars, aggVars, esvVars, mergeVars, decVars, lexVars, renderVars>>

\* time.sleep(wait_time); continue
Wait ==
    /\ pc = "fc_rate_limited"
    /\ slept' = Append(slept, Milliseconds(wait_time(attempt)))
    /\ attempt' = attempt + 1
    /\ pc' = "fc_loop"
    /\ UNCHANGED <<fetch_call, response, fetched, retries, sent,
                   refVars, aggVars, esvVars, mergeVars, decVars, lexVars, renderVars>>

\* the else clause of the loop: response.raise_for_status() on the last
\* response, a name that is not bound when the loop had no pass
Exhausted ==
    /\ pc = "fc_loop"
    /\ ~InRange(attempt, retries)
    /\ IF response = <<>>
       THEN pc' = "fc_raised" /\ fetched' = [raised |-> "UnboundLocalError"]
       ELSE IF IsErrorStatus(response)
       THEN pc' = "fc_raised" /\ fetched' = HTTPError(response)
       ELSE pc' = "fc_break" /\ fetched' = fetched
    /\ UNCHANGED <<fetch_call, response, retries, attempt, sent, slept,
                   refVars, aggVars, esvVars, mergeVars, decVars, lexVars, renderVars>>

\* after the loop: the pause, response.json() and the verses
Return ==
    /\ pc = "fc_break"
    /\ slept' = Append(slept, PauseAfterRequest)
    /\ fetched' = ChapterOfResponse(fetch_call.chapter, response)
    /\ pc' = "fc_returned"
    /\ UNCHANGED <<fetch_call, response, retries, attempt, sent,
                   refVars, aggVars, esvVars, mergeVars, decVars, lexVars, renderVars>>

NextRetry == Request \/ Wait \/ Exhausted \/ Return

\* the call is sequential code: a step that can be taken is taken, the
\* service answering every request
SpecRetry == InitRetry /\ [][NextRetry]_vars /\ WF_vars(NextRetry)

(***************************************************************************)
(* Reference parser: properties                                            *)
(***************************************************************************)
\* what the composed reference encodes, read off its source record
EncodedReference(src) ==
    LET b == BOOK_NAMES[src.key][2]
    IN  CASE src.form = "range" ->
               [book_num |-> b, type |-> "verse_range", chapter |-> PyInt(src.c),
                start_verse |-> PyInt(src.v1), end_verse |-> PyInt(src.v2)]
          [] src.form = "single" ->
               [book_num |-> b, type |-> "verse_range", chapter |-> PyInt(src.c),
                start_verse |-> PyInt(src.v1), end_verse |-> PyInt(src.v1)]
          [] src.form = "chapter" ->
               [book_num |-> b, type |-> "chapter", chapter |-> PyInt(src.c)]
          [] src.form = "book" -> [book_num |-> b, type |-> "book"]

\* C3: a reference in one of the four forms whose book name is a key of
\* BOOK_NAMES in any casing and with spaces placed anywhere parses to exactly
\* the book number, kind, chapter and verse bounds it encodes; the result
\* depends on the key's number and the numerals only, so respellings agree.
C3_ParsesEncodedReference ==
    (pc = "ref_done" /\ KnownName(ref_src) /\ ref_src.form \in ValidForms)
        => parsed = EncodedReference(ref_src)

\* a respelled "Book C:V" reference was parsed to a one-verse range
C3_Witness ==
    /\ pc = "ref_done"
    /\ KnownName(ref_src)
    /\ ref_src.name # BOOK_NAMES[ref_src.key][1]
    /\ NormalizeBookName(ref_src.name) # ref_src.name
    /\ ref_src.form = "single"
    /\ ~Raised(parsed)
    /\ parsed.type = "verse_range"
    /\ parsed.start_verse = 16 /\ parsed.end_verse = 16

\* C4: a string that matches none of the four forms, or matches one with a
\* name that is no key of BOOK_NAMES, yields no reference: ValueError is
\* raised and its message carries the stripped input, or the book name as
\* written (for a malformed string: the text the parser took for the name).
C4_InvalidReferenceRaises ==
    (pc = "ref_done" /\ (~KnownName(ref_src) \/ ref_src.form \in BadForms))
        => /\ Raised(parsed)
           /\ IF ~KnownName(ref_src) /\ ref_src.form # "book"
              THEN parsed = Raise("Unknown book: ", ref_src.name)
              ELSE \/ parsed = Raise("Invalid passage reference: ", PyStrip(ref))
                   \/ /\ parsed.prefix = "Unknown book: "
                      /\ StartsWith(PyStrip(ref), parsed.arg)
                      /\ StartsWith(parsed.arg, ref_src.name)

\* an unknown book in a well-formed "Book C:V1-V2" reference was rejected by name
C4_Witness ==
    /\ pc = "ref_done"
    /\ ~KnownName(ref_src)
    /\ ref_src.form = "range"
    /\ Raised(parsed)
    /\ parsed.arg = ref_src.name

\* C5: every returned reference of kind verse_range has its chapter and both
\* verse bounds set, with start_verse <= end_verse.
C5_VerseRangeOrdered ==
    (pc = "ref_done" /\ ~Raised(parsed) /\ parsed.type = "verse_range")
        => /\ {"chapter", "start_verse", "end_verse"} \subseteq DOMAIN parsed
           /\ parsed.start_verse <= parsed.end_verse

(***************************************************************************)
(* Aggregator: properties                                                  *)
(***************************************************************************)
AggReturned == pc \in {"agg_done", "agg_again"}

\* the scope a request asks for
Scope(r) ==
    IF r.op = "extract_book" THEN [book_num |-> r.book_num, type |-> "book"]
    ELSE IF r.op = "extract_chapter"
    THEN [book_num |-> r.book_num, type |-> "chapter", chapter |-> r.chapter]
    ELSE parse_passage_reference(r.passage_ref)

\* the chapter nodes of a returned tree (none for a flat one)
ChapterNodes(r, t) ==
    IF r.op = "extract_book" THEN t.chapters
    ELSE IF r.op = "extract_passage" /\ ~Raised(t) /\ t.type = "book" THEN t.chapters
    ELSE <<>>

\* the verse lists of a returned tree: one per chapter node, or the flat one
VerseLists(r, t) ==
    IF r.op = "extract_chapter" THEN {t}
    ELSE IF r.op = "extract_passage" /\ Raised(t) THEN {}
    ELSE IF r.op = "extract_passage" /\ t.type # "book" THEN {t.verses}
    ELSE {ChapterNodes(r, t)[i].verses : i \in DOMAIN ChapterNodes(r, t)}

\* the words of a returned tree
TreeWords(r, t) ==
    UNION {UNION {Range(vl[i].words) : i \in DOMAIN vl} : vl \in VerseLists(r, t)}

\* the integers a well-formed row key holds
KeyFields(key) ==
    LET m == RefMatch(key)
    IN  [book |-> PyInt(m.groups[1]), chapter |-> PyInt(m.groups[2]),
         verse |-> PyInt(m.groups[3])]

InScope(s, k) ==
    /\ k.book = s.book_num
    /\ s.type \in {"chapter", "verse_range"} => k.chapter = s.chapter
    /\ s.type = "verse_range" => (s.start_verse <= k.verse /\ k.verse <= s.end_verse)

\* C6: a word is in the returned tree only if its row's key has exactly the
\* requested book (extract_book), book and chapter (extract_chapter), or
\* book and chapter with a verse inside the range (verse-range branch); a
\* row whose number merely starts with the requested digits is left out.
C6_OnlyRowsInScope ==
    AggReturned =>
        \A w \in TreeWords(req, tree) : InScope(Scope(req), KeyFields(df[w.row].ref))

\* book 4 was extracted from a corpus that also holds a usable row of book 40
C6_Witness ==
    /\ pc = "agg_done"
    /\ req.op = "extract_book" /\ req.book_num = 4
    /\ \E i \in DOMAIN df : KeyFields(df[i].ref).book = 40 /\ KeepWord(WordData(df[i], i))
    /\ Cardinality(TreeWords(req, tree)) = 1

\* C7: every word of a returned tree has a non-empty surface and a non-empty
\* gloss, and every verse node holds at least one word.
C7_NoEmptyWordNoEmptyVerse ==
    AggReturned =>
        /\ \A w \in TreeWords(req, tree) : w.greek # <<>> /\ w.gloss # <<>>
        /\ \A vl \in VerseLists(req, tree) : \A i \in DOMAIN vl : vl[i].words # <<>>

\* a chapter was extracted whose rows include a surface without gloss, a gloss
\* without surface and a usable word
C7_Witness ==
    /\ pc = "agg_done"
    /\ req.op = "extract_chapter" /\ req.book_num = 40 /\ req.chapter = 1
    /\ \E i, j, k \in DOMAIN df :
           /\ \A n \in {i, j, k} : InScope(Scope(req), KeyFields(df[n].ref))
           /\ WordData(df[i], i).greek # <<>> /\ WordData(df[i], i).gloss = <<>>
           /\ WordData(df[j], j).greek = <<>> /\ WordData(df[j], j).gloss # <<>>
           /\ KeepWord(WordData(df[k], k))
           /\ KeyFields(df[i].ref).verse # KeyFields(df[k].ref).verse
    /\ Len(tree) = 1

\* C8: every chapter node returned by extract_book holds at least one verse.
C8_NoEmptyChapter ==
    AggReturned =>
        \A i \in DOMAIN ChapterNodes(req, tree) : ChapterNodes(req, tree)[i].verses # <<>>

StrictlyIncreasing(s) == \A i \in 1..(Len(s) - 1) : s[i] < s[i + 1]

TreeOrdered(r, t) ==
    /\ StrictlyIncreasing([i \in DOMAIN ChapterNodes(r, t) |-> ChapterNodes(r, t)[i].chapter])
    /\ \A vl \in VerseLists(r, t) :
           /\ StrictlyIncreasing([i \in DOMAIN vl |-> vl[i].verse])
           /\ \A i \in DOMAIN vl :
                  StrictlyIncreasing([j \in DOMAIN vl[i].words |-> vl[i].words[j].row])

\* C9: whatever the order of the rows, chapters come in strictly increasing
\* chapter number, verses in strictly increasing verse number and the words
\* of a verse in row order; the same call again returns the identical tree.
C9_OrderedAndRepeatable ==
    /\ [](AggReturned => TreeOrdered(req, tree))
    /\ [][pc' = "agg_again" => tree' = tree]_vars

\* a book was extracted twice from rows listing chapter 10 before chapter 2
C9_Witness ==
    /\ pc = "agg_again"
    /\ req.op = "extract_book"
    /\ Len(tree.chapters) = 2
    /\ \E i, j \in DOMAIN df :
           /\ i < j
           /\ KeyFields(df[i].ref).chapter = 10 /\ KeyFields(df[j].ref).chapter = 2
           /\ KeepWord(WordData(df[i], i)) /\ KeepWord(WordData(df[j], j))

(***************************************************************************)
(* Heading/verse disambiguator: properties                                 *)
(***************************************************************************)
\* the positions of the markers, in order
MarkerPositions(items) == SetToSeq({p \in DOMAIN items : items[p] = "M"})

\* the positions of the lines between marker i and the next marker
Span(items, i) ==
    LET ms == MarkerPositions(items)
        last == IF i < Len(ms) THEN ms[i + 1] - 1 ELSE Len(items)
    IN  (ms[i] + 1)..last

\* the line at position p as the scan sees it
LineAt(items, p) == PyStrip(LineContent(items[p], p, Len(items)))

\* the heading-shaped lines of span i that stand directly after a blank line
HeadingsAfterBlank(items, i) ==
    {p \in Span(items, i) : /\ is_likely_heading(LineAt(items, p))
                            /\ (p - 1) \in Span(items, i)
                            /\ LineAt(items, p - 1) = <<>>}

\* a line of span i that is heading-shaped or blank
HeadingOrBlank(items, p) ==
    LineAt(items, p) = <<>> \/ is_likely_heading(LineAt(items, p))

\* whether a later line of span i replaces the heading at p: a heading-shaped
\* line reached with nothing but blank and heading-shaped lines since some
\* blank line
Replaced(items, i, p) ==
    \E q \in Span(items, i) :
        /\ q > p
        /\ is_likely_heading(LineAt(items, q))
        /\ \E b \in Span(items, i) :
               /\ b < q
               /\ LineAt(items, b) = <<>>
               /\ \A r \in (b + 1)..(q - 1) : HeadingOrBlank(items, r)

\* whether needle occurs in hay
Contains(hay, needle) ==
    \E k \in 0..(Len(hay) - Len(needle)) : SubSeq(hay, k + 1, k + Len(needle)) = needle

VersesNumbered(n) == {k \in DOMAIN parsed_verses : parsed_verses[k].verse = n}

HasHeading(v, h) == "heading" \in DOMAIN v /\ v.heading = h

NotInOwnVerse(items, i, p) ==
    \A k \in VersesNumbered(i) :
        /\ ~HasHeading(parsed_verses[k], LineAt(items, p))
        /\ ~Contains(parsed_verses[k].text, LineAt(items, p))

HeadsNextVerse(items, i, p) ==
    \E k \in VersesNumbered(i + 1) : HasHeading(parsed_verses[k], LineAt(items, p))

\* C10 as stated: a heading-shaped line after a blank line in the span of
\* marker i is neither heading nor text of verse i, and whenever marker i+1
\* exists it is the heading of the verse of marker i+1.
C10_HeadingAlwaysOnNextVerse ==
    pc = "esv_done" =>
        \A i \in 1..Len(MarkerPositions(text_src)) :
            \A p \in HeadingsAfterBlank(text_src, i) :
                /\ NotInOwnVerse(text_src, i, p)
                /\ i < Len(MarkerPositions(text_src)) => HeadsNextVerse(text_src, i, p)

\* C10: a heading-shaped line after a blank line in the span of marker i is
\* neither heading nor text of verse i; it is the heading of the verse of
\* marker i+1 when that verse is in the output and no later line of the span
\* replaces it as the heading.
C10_HeadingOnNextEmittedVerse ==
    pc = "esv_done" =>
        \A i \in 1..Len(MarkerPositions(text_src)) :
            \A p \in HeadingsAfterBlank(text_src, i) :
                /\ NotInOwnVerse(text_src, i, p)
                /\ (/\ VersesNumbered(i + 1) # {}
                    /\ ~Replaced(text_src, i, p)) => HeadsNextVerse(text_src, i, p)

\* verse 1 holds text, its span ends in a blank line and a heading-shaped
\* line, and verse 2 is returned with that line as its heading
C10_Witness ==
    /\ pc = "esv_done"
    /\ Len(MarkerPositions(text_src)) >= 2
    /\ \E p \in HeadingsAfterBlank(text_src, 1) :
           /\ VersesNumbered(1) # {}
           /\ NotInOwnVerse(text_src, 1, p)
           /\ HeadsNextVerse(text_src, 1, p)

(***************************************************************************)
(* Mergers: properties                                                     *)
(***************************************************************************)
SameWord(mw, gw) ==
    /\ mw.greek = gw.greek
    /\ mw.gloss = gw.gloss
    /\ ("strongs" \in DOMAIN mw) = ("strongs" \in DOMAIN gw)
    /\ "strongs" \in DOMAIN gw => mw.strongs = gw.strongs

\* one merged verse per Greek verse, in order, with its number and words
OnePerGreekVerse(mverses, gverses) ==
    /\ Len(mverses) = Len(gverses)
    /\ \A i \in 1..Len(gverses) :
           /\ mverses[i].number = gverses[i].verse
           /\ Len(mverses[i].greek_words) = Len(gverses[i].words)
           /\ \A j \in 1..Len(gverses[i].words) :
                  SameWord(mverses[i].greek_words[j], gverses[i].words[j])

\* C1: merge_verse_data for a flat Greek tree and merge_book_data for a book
\* return, chapter by chapter, exactly one merged verse per Greek verse, in
\* the order of the Greek tree, with that verse's number and words, whatever
\* the translation covers.
C1_OneMergedVersePerGreekVerse ==
    pc = "merged_document" =>
        IF greek_data.type = "book"
        THEN /\ Len(merged) = Len(greek_data.chapters)
             /\ \A c \in 1..Len(greek_data.chapters) :
                    /\ merged[c].number = greek_data.chapters[c].chapter
                    /\ OnePerGreekVerse(merged[c].verses, greek_data.chapters[c].verses)
        ELSE OnePerGreekVerse(merged, greek_data.verses)

\* a flat Greek tree of two verses merged with a translation that has the
\* first verse only
C1_Witness ==
    /\ pc = "merged_document"
    /\ greek_data.type = "chapter"
    /\ Len(greek_data.verses) = 2
    /\ Len(esv_data.verses) = 1
    /\ esv_data.verses[1].verse = greek_data.verses[1].verse
    /\ Len(merged) = 2
    /\ merged[2].esv_text = <<>>

\* C2: for a flat Greek tree (type chapter or verse_range) the merge of
\* render_multi_book returns a flat sequence with one merged verse for every
\* Greek verse.
C2_FlatGreekMergedFlat ==
    (pc = "merged_multi" /\ greek_data.type \in {"chapter", "verse_range"}) =>
        OnePerGreekVerse(merged, greek_data.verses)

\* the positions of the non-blank lines before the first marker
LinesBeforeFirst(items) ==
    {p \in 1..(MarkerPositions(items)[1] - 1) : LineAt(items, p) # <<>>}

\* whether the last non-blank line before the first marker is heading-shaped
LeadingHeading(items) ==
    /\ LinesBeforeFirst(items) # {}
    /\ is_likely_heading(LineAt(items, CHOOSE p \in LinesBeforeFirst(items) :
                                           \A q \in LinesBeforeFirst(items) : q <= p))

LeadingLine(items) ==
    LineAt(items, CHOOSE p \in LinesBeforeFirst(items) :
                      \A q \in LinesBeforeFirst(items) : q <= p)

C12_HeadingsWellFormed ==
    pc = "esv_done" =>
        \A k \in DOMAIN parsed_verses :
            "heading" \in DOMAIN parsed_verses[k] =>
                LET h == parsed_verses[k].heading
                IN  /\ Len(h) >= 1
                    /\ Len(h) <= 80
                    /\ h[Len(h)] \notin {".", ",", ":", ";", "!", "?", "\"", "'"}

\* a verse is returned with a heading from a text that also holds, after a
\* blank line, a line of 81 characters and a line ending in a quotation mark
C12_Witness ==
    /\ pc = "esv_done"
    /\ \E k \in DOMAIN parsed_verses : "heading" \in DOMAIN parsed_verses[k]
    /\ \E p \in 2..Len(text_src) : text_src[p] = "L" /\ text_src[p - 1] = "B"
    /\ \E p \in 2..Len(text_src) :
           /\ text_src[p] = "T" /\ text_src[p - 1] = "B"
           /\ LineAt(text_src, p)[Len(LineAt(text_src, p))] \in {"\"", "'"}

\* whether the scan reaches line p of span i with blank_line_seen set: some
\* blank line stands before it with only blank and heading-shaped lines between
AfterBlank(items, i, p) ==
    \E b \in Span(items, i) :
        /\ b < p
        /\ LineAt(items, b) = <<>>
        /\ \A r \in (b + 1)..(p - 1) : HeadingOrBlank(items, r)

\* the lines of span i that are collected as verse text
TextLines(items, i) ==
    {p \in Span(items, i) :
        /\ LineAt(items, p) # <<>>
        /\ ~(AfterBlank(items, i, p) /\ is_likely_heading(LineAt(items, p)))}

\* C13: the returned verses have the numbers of markers, in marker order and
\* no number twice; the verse of a marker is returned exactly when some line
\* of its span is collected as text, and every returned verse has text.
C13_OneVersePerMarkerWithText ==
    pc = "esv_done" =>
        /\ \A k \in DOMAIN parsed_verses : parsed_verses[k].text # <<>>
        /\ \A k \in DOMAIN parsed_verses :
               parsed_verses[k].verse \in 1..Len(MarkerPositions(text_src))
        /\ \A k \in 1..(Len(parsed_verses) - 1) :
               parsed_verses[k].verse < parsed_verses[k + 1].verse
        /\ \A i \in 1..Len(MarkerPositions(text_src)) :
               (VersesNumbered(i) # {}) <=> (TextLines(text_src, i) # {})

\* three markers: the first has text, the second has a blank line only and
\* gets no verse, the third has text
C13_Witness ==
    /\ pc = "esv_done"
    /\ text_src = <<"M", "T", "M", "B", "M", "T">>
    /\ Len(parsed_verses) = 2
    /\ parsed_verses[1].verse = 1
    /\ parsed_verses[2].verse = 3

\* whether a translation passage holds verse n of chapter c: a book by its
\* chapter nodes, a flat passage as chapter 1
TranslationHas(data, c, n) ==
    IF data.type = "book"
    THEN \E k \in DOMAIN data.chapters :
             /\ data.chapters[k].chapter = c
             /\ \E j \in DOMAIN data.chapters[k].verses :
                    data.chapters[k].verses[j].verse = n
    ELSE c = 1 /\ \E j \in DOMAIN data.verses : data.verses[j].verse = n

\* whether the verse list handed to merge_verse_data holds verse n
FlatTranslationHas(data, n) ==
    /\ "verses" \in DOMAIN data
    /\ \E j \in DOMAIN data.verses : data.verses[j].verse = n

TranslationHeadings(data, c, n) ==
    IF data.type = "book"
    THEN UNION {{data.chapters[k].verses[j].heading :
                    j \in {j \in DOMAIN data.chapters[k].verses :
                              /\ data.chapters[k].verses[j].verse = n
                              /\ "heading" \in DOMAIN data.chapters[k].verses[j]}} :
                k \in {k \in DOMAIN data.chapters : data.chapters[k].chapter = c}}
    ELSE {data.verses[j].heading :
             j \in {j \in DOMAIN data.verses :
                       /\ c = 1
                       /\ data.verses[j].verse = n
                       /\ "heading" \in DOMAIN data.verses[j]}}

\* C15: the heading of every verse merge_multi_book_data returns is the
\* heading the ESV carries for that chapter and verse, or the empty string
\* when it carries none; it is never a heading of the NET or the KJV.
C15_HeadingFromEsvOnly ==
    pc = "merged_multi" =>
        \A c \in DOMAIN merged : \A i \in DOMAIN merged[c].verses :
            LET mv == merged[c].verses[i]
                esv_headings == TranslationHeadings(esv_data, merged[c].number, mv.number)
            IN  /\ IF esv_headings = {} THEN mv.heading = <<>>
                   ELSE mv.heading \in esv_headings
                /\ mv.heading \notin TranslationHeadings(net_data, merged[c].number, mv.number)
                /\ mv.heading \notin TranslationHeadings(kjv_data, merged[c].number, mv.number)

\* NET and KJV carry a heading on every verse; the ESV has a heading on
\* verse 1 of chapter 1 and no entry for verse 2
C15_Witness ==
    /\ pc = "merged_multi"
    /\ Len(merged) >= 1 /\ merged[1].number = 1 /\ Len(merged[1].verses) = 2
    /\ TranslationHeadings(net_data, 1, 2) # {}
    /\ TranslationHeadings(kjv_data, 1, 2) # {}
    /\ TranslationHeadings(esv_data, 1, 1) # {}
    /\ ~TranslationHas(esv_data, 1, 2)
    /\ merged[1].verses[1].heading \in TranslationHeadings(esv_data, 1, 1)
    /\ merged[1].verses[2].heading = <<>>

(***************************************************************************)
(* Decoder: properties                                                     *)
(***************************************************************************)
HasIdentifier(src) == src.kind = "tantt" /\ src.form \in {"full", "bare"}

\* C16: the identifier extract_strongs_number returns is G and the numeral
\* without its leading zeros, so that cells differing only in the leading
\* zeros give the same identifier; the extraction applied to the identifier
\* it returned returns that identifier.
C16_IdentifierNormalized ==
    /\ (pc \in {"dec_done", "dec_again"} /\ HasIdentifier(cell_src)) =>
           decoded.strongs = <<"G">> \o cell_src.digits
    /\ (pc = "dec_again" /\ HasIdentifier(cell_src)) => redecoded = decoded.strongs

\* G0976 in a full cell gives G976, and G976 gives G976 again
C16_Witness ==
    /\ pc = "dec_again"
    /\ cell_src.form = "full"
    /\ cell_src.zeros = 1
    /\ cell_src.digits = <<"9", "7", "6">>
    /\ decoded.strongs = <<"G", "9", "7", "6">>
    /\ redecoded = <<"G", "9", "7", "6">>

\* the candidates of a gloss cell, trimmed
Trimmed(src, k) == PyStrip(Candidate(k, src.cands[k]))

\* C17: for a gloss cell of candidates extract_gloss returns the third
\* candidate, trimmed, when there are at least three and the third is not
\* empty after trimming; otherwise the first candidate, trimmed (the empty
\* string for a cell without any), whatever the second candidate is.
C17_ThirdElseFirst ==
    (pc = "dec_done" /\ cell_src.kind = "gloss" /\ cell_src.form = "list") =>
        decoded.gloss =
            IF Len(cell_src.cands) >= 3 /\ Trimmed(cell_src, 3) # <<>>
            THEN Trimmed(cell_src, 3)
            ELSE IF Len(cell_src.cands) >= 1 THEN Trimmed(cell_src, 1)
            ELSE <<>>

\* three candidates, the third blank and the second a word: the first is
\* returned
C17_Witness ==
    /\ pc = "dec_done"
    /\ cell_src.kind = "gloss"
    /\ cell_src.cands = <<"word", "word", "blank">>
    /\ decoded.gloss = <<"g", "1">>

(***************************************************************************)
(* Aggregator and bad rows: properties                                     *)
(***************************************************************************)
\* an encoded cell without '=' separator, and one without identifier token
NoSeparator(c) == ~Absent(c) /\ "=" \notin Range(c)

NoIdentifier(c) ==
    ~Absent(c) /\ ~\E k \in 1..(Len(c) - 1) : c[k] = "G" /\ IsDigit(c[k + 1])

\* a gloss cell without candidates: nothing but brackets, bars and blanks
NoCandidates(c) == ~Absent(c) /\ Range(c) \subseteq {"[", "]", "|", " "}

BadRow(r) ==
    \/ Absent(r.tantt) \/ NoSeparator(r.tantt) \/ NoIdentifier(r.tantt)
    \/ Absent(r.gloss) \/ NoCandidates(r.gloss)

\* a word without the index of the row it comes from
PlainWord(w) ==
    IF "strongs" \in DOMAIN w
    THEN [greek |-> w.greek, gloss |-> w.gloss, strongs |-> w.strongs]
    ELSE [greek |-> w.greek, gloss |-> w.gloss]

PlainVerses(vs) ==
    [i \in DOMAIN vs |->
        [verse |-> vs[i].verse,
         words |-> [j \in DOMAIN vs[i].words |-> PlainWord(vs[i].words[j])]]]

\* what extract_passage returned, as the code holds it
PlainTree(t) ==
    IF "chapters" \in DOMAIN t
    THEN [type |-> t.type,
          chapters |-> [c \in DOMAIN t.chapters |->
                           [chapter |-> t.chapters[c].chapter,
                            verses |-> PlainVerses(t.chapters[c].verses)]]]
    ELSE [type |-> t.type, verses |-> PlainVerses(t.verses)]

RemoveRow(d, i) == SubSeq(d, 1, i - 1) \o SubSeq(d, i + 1, Len(d))

\* C18: for a row whose encoded cell or gloss cell is absent, empty or
\* malformed, the decoder functions return the empty string for the bad
\* cell, and extract_passage returns the same tree as on the corpus without
\* that row.
C18_BadRowLeavesNoTrace ==
    (pc = "agg_done" /\ req.op = "extract_passage") =>
        \A i \in DOMAIN df :
            /\ (Absent(df[i].tantt) \/ NoSeparator(df[i].tantt))
                   => extract_greek_word(df[i].tantt) = <<>>
            /\ (Absent(df[i].tantt) \/ NoIdentifier(df[i].tantt))
                   => extract_strongs_number(df[i].tantt) = <<>>
            /\ (Absent(df[i].gloss) \/ NoCandidates(df[i].gloss))
                   => extract_gloss(df[i].gloss) = <<>>
            /\ BadRow(df[i]) =>
                   PlainTree(tree) = PlainTree(extract_passage(req.passage_ref,
                                                               RemoveRow(df, i)))

\* whether no row of the corpus lies in the scope of the reference
EmptyScope(r, d) ==
    \A i \in DOMAIN d : ~InScope(Scope(r), KeyFields(d[i].ref))

\* C19: for a valid reference whose scope holds no row of the corpus,
\* extract_passage raises nothing and returns a passage of the reference's
\* kind that is empty: no chapter for a book, no verse for a chapter or a
\* verse range.
C19_EmptyScopeEmptyPassage ==
    (/\ pc = "agg_done"
     /\ req.op = "extract_passage"
     /\ ~Raised(Scope(req))
     /\ EmptyScope(req, df)) =>
        /\ ~Raised(tree)
        /\ tree.type = Scope(req).type
        /\ IF tree.type = "book"
           THEN /\ "chapters" \in DOMAIN tree /\ tree.chapters = <<>>
                /\ "verses" \notin DOMAIN tree
           ELSE /\ "verses" \in DOMAIN tree /\ tree.verses = <<>>
                /\ "chapters" \notin DOMAIN tree

\* a chapter reference on a corpus of rows that all lie in other chapters,
\* one of them in the chapter with the same first digit
C19_Witness ==
    /\ pc = "agg_done"
    /\ req.op = "extract_passage"
    /\ Scope(req).type = "chapter"
    /\ df # <<>>
    /\ EmptyScope(req, df)
    /\ \E i \in DOMAIN df :
           /\ KeyFields(df[i].ref).book = Scope(req).book_num
           /\ KeyFields(df[i].ref).chapter = 10 * Scope(req).chapter
    /\ tree.verses = <<>>

(***************************************************************************)
(* Lexical cross-reference resolver: properties                            *)
(***************************************************************************)
\* the identifiers on the words of a list of verses
VerseIdentifiers(verse_list) ==
    UNION {{w.strongs : w \in {x \in Range(v.words) : "strongs" \in DOMAIN x}} :
               v \in Range(verse_list)}

\* the identifiers on the words of a passage of either shape
PassageIdentifiers(data) ==
    IF data.type = "book"
    THEN UNION {VerseIdentifiers(ch.verses) : ch \in Range(data.chapters)}
    ELSE VerseIdentifiers(data.verses)

\* the words of a passage that carry the identifier
WordsWith(data, num) ==
    LET words == PassageWords(data)
    IN  {i \in 1..Len(words) : "strongs" \in DOMAIN words[i] /\ words[i].strongs = num}

\* the fields of an entry that describe the headword
DescriptiveFields == {"lemma", "translit", "definition", "lsj_definition", "kjv_def", "derivation"}

\* C20: with the dictionary file in place, collect_strongs_from_greek_data
\* raises nothing and returns, for a passage of either shape, exactly one
\* entry per distinct identifier on its words, keyed and labelled by that
\* identifier: no entry for anything else, an identifier on several words
\* once, and an identifier the dictionary does not know with every
\* descriptive field empty.
C20_OneEntryPerIdentifier ==
    (pc = "lex_done" /\ strongs_file # Missing) =>
        /\ "returned" \in DOMAIN lex_entries
        /\ LET entries == lex_entries.returned
           IN  /\ {entries[i][1] : i \in 1..Len(entries)} = PassageIdentifiers(lex_passage)
               /\ \A i, j \in 1..Len(entries) : entries[i][1] = entries[j][1] => i = j
               /\ \A i \in 1..Len(entries) :
                      /\ entries[i][2].strongs = entries[i][1]
                      /\ ~DictHas(strongs_file, entries[i][1]) =>
                             \A f \in DescriptiveFields : entries[i][2][f] = <<>>

\* a book whose words carry an identifier twice (in two chapters), a known
\* identifier and no identifier, the first being absent from the dictionary
\* and returned once with empty fields
C20_Witness ==
    /\ pc = "lex_done" /\ strongs_file # Missing
    /\ lex_passage.type = "book"
    /\ Len(lex_passage.chapters) = 2
    /\ Cardinality(WordsWith(lex_passage, LexIdentifiers[1])) = 2
    /\ \E i \in 1..Len(PassageWords(lex_passage)) :
           "strongs" \notin DOMAIN PassageWords(lex_passage)[i]
    /\ ~DictHas(strongs_file, LexIdentifiers[1])
    /\ "returned" \in DOMAIN lex_entries
    /\ Len(lex_entries.returned) = 1
    /\ lex_entries.returned[1] = <<LexIdentifiers[1], BlankEntry(LexIdentifiers[1])>>

\* a flat passage with the same case: an identifier on two words, unknown to
\* the dictionary, next to a known one
C20_WitnessFlat ==
    /\ pc = "lex_done" /\ strongs_file # Missing
    /\ lex_passage.type = "verse_range"
    /\ Cardinality(WordsWith(lex_passage, LexIdentifiers[3])) = 2
    /\ ~DictHas(strongs_file, LexIdentifiers[3])
    /\ DictHas(strongs_file, LexIdentifiers[1])
    /\ "returned" \in DOMAIN lex_entries
    /\ Len(lex_entries.returned) = 2
    /\ lex_entries.returned[1] = <<LexIdentifiers[3], BlankEntry(LexIdentifiers[3])>>
    /\ lex_entries.returned[2][2].lemma = LexLemmas[1]

(***************************************************************************)
(* Lexicon lookup: properties                                              *)
(***************************************************************************)
\* the lexicon as lookup_lsj sees it: the file, or the empty table without one
LsjSource == IF lsj_file = Missing THEN <<>> ELSE lsj_file

\* the keys (by position in the file) that match the lemma at a stage
StageKeys(stage, lemma) ==
    {i \in 1..Len(LsjSource) :
        CASE stage = 1 -> LsjSource[i][1] = lemma
          [] stage = 2 -> GreekLower(LsjSource[i][1]) = GreekLower(lemma)
          [] stage = 3 -> normalize_greek(LsjSource[i][1]) = normalize_greek(lemma)}

\* the plain text of the definition stored under the i-th key
DefinitionAt(i) == clean_lsj_html(Get(LsjSource[i][2], "d", <<>>))

\* the first stage at which some key matches, 0 if none does
FirstStage(lemma) ==
    IF StageKeys(1, lemma) # {} THEN 1
    ELSE IF StageKeys(2, lemma) # {} THEN 2
    ELSE IF StageKeys(3, lemma) # {} THEN 3
    ELSE 0

\* C21: lookup_lsj never raises; a lemma (not the empty string) that matches
\* a key at some stage resolves to the definition of a key of the first stage
\* that has one (exact, then equal ignoring case, then equal after stripping
\* combining marks and lowercasing), so a lemma present verbatim resolves to
\* its own entry whatever else matches it; a lemma matching at no stage, and
\* the empty lemma, resolve to the empty string.
C21_FirstMatchingStageDecides ==
    (pc = "lsj_done") =>
        /\ "returned" \in DOMAIN lex_result
        /\ LET lemma == lex_call.arg
               stage == FirstStage(lemma)
           IN  IF lemma = <<>> \/ stage = 0
               THEN lex_result.returned = <<>>
               ELSE \E i \in StageKeys(stage, lemma) : lex_result.returned = DefinitionAt(i)

\* the lemma stands verbatim as the last of three keys, after a key that
\* equals it ignoring case and one that equals it without accents, and
\* resolves to its own definition
C21_Witness ==
    /\ pc = "lsj_done"
    /\ lex_call.arg = LsjForms[1]
    /\ lsj_file # Missing /\ Len(lsj_file) = 3
    /\ lsj_file[1][1] = LsjForms[2] /\ lsj_file[2][1] = LsjForms[3]
    /\ lsj_file[3][1] = LsjForms[1]
    /\ lex_result.returned = <<"d", "1">>

\* a lemma found only without its accent, one found only ignoring case, and
\* one found at no stage
C21_WitnessStages ==
    /\ pc = "lsj_done" /\ lsj_file # Missing
    /\ \/ /\ FirstStage(lex_call.arg) = 3 /\ lex_result.returned = <<"d", "3">>
       \/ /\ FirstStage(lex_call.arg) = 2 /\ lex_result.returned = <<"d", "2">>

\* C22: the appendix built by format_appendix_entries from the collected
\* entries lists the identifiers of the passage by the integer value of their
\* digits, strictly ascending, so none appears twice.
C22_AppendixInNumericOrder ==
    (pc = "appendix_done") =>
        /\ {appendix[i].strongs : i \in 1..Len(appendix)} = PassageIdentifiers(lex_passage)
        /\ \A i, j \in 1..Len(appendix) :
               i < j => PyInt(Tail(appendix[i].strongs)) < PyInt(Tail(appendix[j].strongs))

\* a passage with G3056 on a word before the words with G976 and G12: the
\* appendix is G12, G976, G3056, which is not the string order
C22_Witness ==
    /\ pc = "appendix_done"
    /\ Len(PassageWords(lex_passage)) = 3
    /\ "strongs" \in DOMAIN PassageWords(lex_passage)[1]
    /\ PassageWords(lex_passage)[1].strongs = <<"G", "3", "0", "5", "6">>
    /\ Len(appendix) = 3
    /\ appendix[1].strongs = <<"G", "1", "2">>
    /\ appendix[2].strongs = <<"G", "9", "7", "6">>
    /\ appendix[3].strongs = <<"G", "3", "0", "5", "6">>

(***************************************************************************)
(* Lexicon tables over one process: properties                             *)
(***************************************************************************)
\* C23: over any sequence of calls of lookup_strongs, lookup_lsj and
\* collect_strongs_from_greek_data, each data file is read at most once, and
\* only by a call that finds its table not yet loaded; once a table is loaded
\* no call reads its file again or changes the table.
C23_TablesLoadedOnce ==
    [][/\ strongs_reads' <= 1 /\ lsj_reads' <= 1
       /\ strongs_reads' # strongs_reads =>
              (strongs_dict = None /\ strongs_dict' = strongs_file)
       /\ lsj_reads' # lsj_reads => (lsj_dict = None /\ lsj_dict' = lsj_file)
       /\ strongs_dict # None =>
              (strongs_dict' = strongs_dict /\ strongs_reads' = strongs_reads)
       /\ lsj_dict # None =>
              (/\ lsj_dict' = lsj_dict /\ lsj_normalized' = lsj_normalized
               /\ lsj_reads' = lsj_reads)]_vars

\* after a collection that looked a lemma up in the lexicon and two further
\* lookups, each file has been read exactly once
C23_Witness ==
    /\ pc = "lsj_done" /\ calls_left = 0
    /\ "returned" \in DOMAIN lex_entries
    /\ \E num \in StrongsNumbers(lex_passage) : NeedsLsj(strongs_file, num)
    /\ lsj_file # Missing
    /\ lex_call.arg = LexLemmas[2] /\ lex_result.returned = <<"w">>
    /\ strongs_dict = strongs_file /\ lsj_dict = lsj_file
    /\ strongs_reads = 1 /\ lsj_reads = 1

(***************************************************************************)
(* render_document: properties                                             *)
(***************************************************************************)
\* C24: after the merge and the escaping of the merged records the Greek tree
\* is what it was before: every word has the surface, gloss and identifier it
\* had.
C24_GreekTreeUnchanged ==
    (pc = "render_escaped") => greek_data = greek_before

(***************************************************************************)
(* Row selection: properties                                               *)
(***************************************************************************)
\* the rows whose word stands in the returned tree
RowsReturned == {w.row : w \in TreeWords(req, tree)}

\* C25: a row with a usable word is in the returned tree if and only if the
\* integers of its key are the requested book (and chapter, and a verse of
\* the requested range), however the digits of the key are written; the same
\* for extract_book, extract_chapter and the verse-range branch.
C25_SelectionByIntegerFields ==
    (AggReturned /\ ~Raised(Scope(req))) =>
        \A i \in DOMAIN df :
            KeepWord(WordData(df[i], i)) =>
                (i \in RowsReturned <=> InScope(Scope(req), KeyFields(df[i].ref)))

(***************************************************************************)
(* Heading/verse disambiguator: the line scan of one span                  *)
(***************************************************************************)
\* the lines of span i taken as heading for the next verse: heading-shaped
\* lines reached with the blank-line flag set
HeadingLines(items, i) ==
    {p \in Span(items, i) :
        AfterBlank(items, i, p) /\ is_likely_heading(LineAt(items, p))}

\* the text of the lines of span i that are collected as verse text
SpanText(items, i) ==
    LET ps == SetToSeq(TextLines(items, i))
    IN  PyStrip(CollapseSpaces(PyJoin([k \in 1..Len(ps) |-> LineAt(items, ps[k])], <<" ">>)))

\* the last member of a non-empty set of positions
LastOf(ps) == CHOOSE p \in ps : \A q \in ps : q <= p

\* C26: in the span of a marker the text of the verse is made of the
\* non-blank lines that are reached with the blank-line flag clear, whatever
\* their shape, and of the lines reached with the flag set that are not
\* heading-shaped (which clear the flag); the heading-shaped lines reached
\* with the flag set are no verse text, and the last of them is the heading
\* offered to the verse of the next marker.
C26_BlankLineFlagClassifies ==
    pc = "esv_done" =>
        \A i \in 1..Len(MarkerPositions(text_src)) :
            /\ \A k \in VersesNumbered(i) : parsed_verses[k].text = SpanText(text_src, i)
            /\ \A k \in VersesNumbered(i + 1) :
                   IF HeadingLines(text_src, i) = {}
                   THEN "heading" \notin DOMAIN parsed_verses[k]
                   ELSE HasHeading(parsed_verses[k],
                                   LineAt(text_src, LastOf(HeadingLines(text_src, i))))

\* after a blank line a line ending in punctuation and then, with no blank
\* line between, a heading-shaped line: both are text of verse 1, and verse 2
\* has no heading
C26_Witness ==
    /\ pc = "esv_done"
    /\ text_src = <<"M", "B", "T", "H", "M", "T">>
    /\ Len(parsed_verses) = 2
    /\ parsed_verses[1].text = LineAt(text_src, 3) \o <<" ">> \o LineAt(text_src, 4)
    /\ is_likely_heading(LineAt(text_src, 4))
    /\ "heading" \notin DOMAIN parsed_verses[2]

\* C27: the heading of a returned verse is the last heading line of the span
\* directly before its own marker (the last non-blank line before the first
\* marker, for the verse of the first marker); a heading line found in the
\* span of marker i is the heading of no verse but that of marker i+1, so it
\* is dropped when that verse is omitted or when marker i is the last one.
C27_HeadingFromSpanBefore ==
    pc = "esv_done" =>
        /\ \A k \in DOMAIN parsed_verses :
               "heading" \in DOMAIN parsed_verses[k] =>
                   LET i == parsed_verses[k].verse
                   IN  IF i = 1
                       THEN /\ LeadingHeading(text_src)
                            /\ parsed_verses[k].heading = LeadingLine(text_src)
                       ELSE /\ HeadingLines(text_src, i - 1) # {}
                            /\ parsed_verses[k].heading =
                                   LineAt(text_src, LastOf(HeadingLines(text_src, i - 1)))
        /\ \A i \in 1..Len(MarkerPositions(text_src)) :
               \A p \in HeadingLines(text_src, i) :
                   \A k \in DOMAIN parsed_verses :
                       HasHeading(parsed_verses[k], LineAt(text_src, p)) =>
                           parsed_verses[k].verse = i + 1

\* a heading line in the span of marker 1, marker 2 with no text, marker 3
\* with text: the only verse returned is verse 3, without a heading
C27_Witness ==
    /\ pc = "esv_done"
    /\ text_src = <<"M", "B", "H", "M", "M", "T">>
    /\ HeadingLines(text_src, 1) = {3}
    /\ VersesNumbered(2) = {}
    /\ Len(parsed_verses) = 1
    /\ parsed_verses[1].verse = 3
    /\ "heading" \notin DOMAIN parsed_verses[1]

(***************************************************************************)
(* Aggregator: the three extraction paths                                  *)
(***************************************************************************)
\* the verse list of chapter c in a tree of extract_book (empty when the
\* tree has no such chapter)
VersesOfChapter(book, c) ==
    LET at == {i \in DOMAIN book.chapters : book.chapters[i].chapter = c}
    IN  IF at = {} THEN <<>> ELSE book.chapters[CHOOSE i \in at : TRUE].verses

\* the verses of a list whose numbers lie in [s, e]
VersesWithin(verses, s, e) == SelectSeq(verses, LAMBDA v : s <= v.verse /\ v.verse <= e)

\* C28: on a corpus whose keys are written as [book|chapter|verse] with
\* plain decimal numbers (no leading zeros), extract_chapter(book, c)
\* returns the verse list of chapter c of extract_book(book), every chapter
\* of extract_book(book) holds the verse list of extract_chapter for its
\* number, and the verse-range branch over [s, e] in chapter c returns the
\* verses of extract_chapter(book, c) numbered in [s, e], none when s > e.
C28_ExtractionPathsAgree ==
    (AggReturned /\ ~Raised(Scope(req))) =>
        LET sc == Scope(req)
        IN  CASE sc.type = "book" ->
                   \A i \in DOMAIN ChapterNodes(req, tree) :
                       ChapterNodes(req, tree)[i].verses =
                           extract_chapter(sc.book_num, ChapterNodes(req, tree)[i].chapter, df)
              [] sc.type = "chapter" ->
                   LET verses == IF req.op = "extract_chapter" THEN tree ELSE tree.verses
                   IN  verses = VersesOfChapter(extract_book(sc.book_num, df), sc.chapter)
              [] sc.type = "verse_range" ->
                   /\ tree.verses =
                          VersesWithin(extract_chapter(sc.book_num, sc.chapter, df),
                                       sc.start_verse, sc.end_verse)
                   /\ sc.start_verse > sc.end_verse => tree.verses = <<>>

\* "Mt 1:1-2" on a corpus with usable rows of Matthew 1:10 and 1:2, in this
\* order: the range returns verse 2 alone, the chapter both, sorted
C28_Witness ==
    /\ AggReturned
    /\ req.op = "extract_passage"
    /\ ~Raised(Scope(req))
    /\ tree.type = "verse_range"
    /\ tree.start_verse = 1 /\ tree.end_verse = 2
    /\ Len(tree.verses) = 1 /\ tree.verses[1].verse = 2
    /\ Len(extract_chapter(40, 1, df)) = 2
    /\ extract_chapter(40, 1, df)[2].verse = 10
    /\ VersesOfChapter(extract_book(40, df), 1) = extract_chapter(40, 1, df)
    /\ KeyFields(df[1].ref).verse = 10

(***************************************************************************)
(* Translation fetchers: properties                                        *)
(***************************************************************************)
\* C29: whenever parse_passage_reference reads the reference as a whole
\* book, a fetcher that returns for the same reference returns the
\* chaptered shape: type 'book' with 'chapters'.
C29_BookReferenceFetchedAsBook ==
    (pc = "fetch_done" /\ ~Raised(parsed) /\ parsed.type = "book" /\ ~Raised(fetched)) =>
        /\ fetched.type = "book"
        /\ "chapters" \in DOMAIN fetched

(***************************************************************************)
(* fetch_chapter: properties                                               *)
(***************************************************************************)
FetchChapterEnded == pc \in {"fc_returned", "fc_raised"}

\* the waits after k rate-limited attempts: 5, 10, ... 5*k seconds
RateLimitWaits(k) == [i \in 1..k |-> Milliseconds(5 * i)]

\* the rate-limited attempts so far
RateLimited == {i \in DOMAIN sent : sent[i].status = 429}

RetryBounded ==
    /\ Len(sent) <= retries
    /\ \A i \in 1..(Len(sent) - 1) : sent[i].status = 429
    /\ Len(slept) <= Len(sent) + 1
    /\ SubSeq(slept, 1, Cardinality(RateLimited) - (IF pc = "fc_rate_limited" THEN 1 ELSE 0))
           = RateLimitWaits(Cardinality(RateLimited) - (IF pc = "fc_rate_limited" THEN 1 ELSE 0))
    /\ pc = "fc_returned" =>
           /\ sent[Len(sent)].status < 400
           /\ ~Raised(fetched)
           /\ fetched = ChapterOfResponse(fetch_call.chapter, response)
           /\ slept = RateLimitWaits(Len(sent) - 1) \o <<PauseAfterRequest>>
    /\ pc = "fc_raised" =>
           /\ Raised(fetched)
           /\ fetched.status = sent[Len(sent)].status
           /\ IF sent[Len(sent)].status = 429
              THEN Len(sent) = retries /\ slept = RateLimitWaits(retries)
              ELSE slept = RateLimitWaits(Len(sent) - 1)

\* C30: a call of fetch_chapter with retries = n >= 1 sends at most n
\* requests, each but the first after a 429 answer and the wait of 5*k
\* seconds that follows the k-th such answer; it returns the verses at the
\* first answer that is no error, raises without a further request or wait
\* at the first error answer other than 429, raises after n answers of 429;
\* and it ends.
C30_RetriesBoundedAndEnds ==
    /\ [](retries >= 1 => RetryBounded)
    /\ <>(retries >= 1 => FetchChapterEnded)

\* two answers of 429 and then the verses, with retries = 3
C30_Witness ==
    /\ pc = "fc_returned"
    /\ retries = 3
    /\ Len(sent) = 3
    /\ sent[1].status = 429 /\ sent[2].status = 429 /\ sent[3].status = 200
    /\ slept = <<5000, 10000, 500>>
    /\ fetched.verses # <<>>

====
